---------------------------- MODULE Spec2Model ----------------------------
(***************************************************************************)
(* Model of src/vrm_optimizer.py: the blob region rebuilder                *)
(* (rebuild_blob_with_replacements), the per-file pipeline                 *)
(* (optimize_vrm_file), the target-size search (optimize_vrm_to_target)    *)
(* and the command loop (main).                                            *)
(*                                                                         *)
(* Conventions.  Python list indices are 0-based; the sequences below are  *)
(* 1-based, so bufferView / image number i here is index i-1 in Python.    *)
(* Byte offsets and lengths are the Python numbers unchanged: the byte at  *)
(* offset o of a payload b is b[o+1].                                      *)
(***************************************************************************)
EXTENDS Integers, Sequences, FiniteSets, TLC

\* ------------------------------------------------------------------ bounds
\* Length in bytes of the original binary payload.
BlobLen == 5
\* Largest number of bufferViews in a container.
MaxRegions == 2
\* Largest byte count of one replacement (re-encoded image).
MaxRepLen == 2
\* Largest number of images in a container.
MaxImages == 2
\* Largest max_attempts handed to optimize_vrm_to_target when called directly.
MaxAttempts == 4
\* Output files are 1..MaxSizeMb MiB long.
MaxSizeMb == 3
\* Largest number of input paths on the command line.
MaxInputs == 2
\* Largest number of materials, and of textures, in a container.
MaxMaterials == 1
MaxTextures == 1

\* ------------------------------------------------------ program constants
\* int(target_mb * 1024 * 1024)
MiB == 1048576
\* max_attempts: int = 12
DefaultMaxAttempts == 12

\* ------------------------------------------------------------ byte values
\* The original payload: byte at offset o has the value o+1, so every
\* original byte is told apart from every other, from padding (0) and from
\* replacement bytes (>= 100).
OriginalBlob == [o1 \in 1..BlobLen |-> o1]

\* The bytes an encoder run produces for bufferView i, n bytes long.
NewBytes(i, n) == [j \in 1..n |-> 100 + 10 * i + j]

None == -1

Min(a, b) == IF a < b THEN a ELSE b
Max(a, b) == IF a > b THEN a ELSE b

\* Python's  x or 0  on an optional integer.
Or0(x) == IF x = None THEN 0 ELSE x

\* Python's  s[a:b]  for 0 <= a, 0 <= b (both ends clipped to len(s)).
Slice(s, a, b) == SubSeq(s, Min(a, Len(s)) + 1, Min(b, Len(s)))

Zeros(n) == [j \in 1..n |-> 0]

\* pad4 without the outer  % 4 : aligned data gets four more zero bytes.
pad4_always(data) == data \o Zeros(4 - (Len(data) % 4))

\* def pad4(data): return data + b"\x00" * ((4 - (len(data) % 4)) % 4)
pad4(data) == data \o Zeros((4 - (Len(data) % 4)) % 4)

\* ------------------------------------------------ sorted(range(len(bvs)))
\* Insert index i into the list of indices `sorted`, after every index whose
\* key is <= key(i): the insertion sort that Python's stable sort equals.
RECURSIVE InsertByOffset(_, _, _)
InsertByOffset(bvs, sorted, i) ==
    IF sorted = << >> THEN << i >>
    ELSE IF Or0(bvs[Head(sorted)].byteOffset) <= Or0(bvs[i].byteOffset)
         THEN << Head(sorted) >> \o InsertByOffset(bvs, Tail(sorted), i)
         ELSE << i >> \o sorted

RECURSIVE SortedPrefix(_, _)
SortedPrefix(bvs, n) ==
    IF n = 0 THEN << >>
    ELSE InsertByOffset(bvs, SortedPrefix(bvs, n - 1), n)

\* order = sorted(range(len(bvs)), key=lambda i: (bvs[i].byteOffset or 0))
order(bvs) == SortedPrefix(bvs, Len(bvs))

\* ------------------------------------------ rebuild_blob_with_replacements
\* RebuildStep that leaves every region at its original offset.
RebuildStep_keepoffset(st, i, original_blob, replacements) ==
    LET bv   == st.bvs[i]
        off  == Or0(bv.byteOffset)
        ln   == Or0(bv.byteLength)
        gap  == IF off > st.cursor
                THEN Slice(original_blob, st.cursor, off)
                ELSE << >>
        blob1 == st.new_blob \o gap
        data == IF i \in DOMAIN replacements
                THEN replacements[i]
                ELSE Slice(original_blob, off, off + ln)
        newbv == [byteOffset |-> off,
                  byteLength |-> IF i \in DOMAIN replacements
                                 THEN Len(data) ELSE ln]
    IN  [bvs      |-> [st.bvs EXCEPT ![i] = newbv],
         new_blob |-> blob1 \o pad4(data),
         cursor   |-> off + ln]

\* RebuildStep that records the padded size as the region's byteLength.
RebuildStep_paddedlen(st, i, original_blob, replacements) ==
    LET bv   == st.bvs[i]
        off  == Or0(bv.byteOffset)
        ln   == Or0(bv.byteLength)
        gap  == IF off > st.cursor
                THEN Slice(original_blob, st.cursor, off)
                ELSE << >>
        blob1 == st.new_blob \o gap
        data == IF i \in DOMAIN replacements
                THEN replacements[i]
                ELSE Slice(original_blob, off, off + ln)
        newbv == [byteOffset |-> Len(blob1),
                  byteLength |-> Len(pad4(data))]
    IN  [bvs      |-> [st.bvs EXCEPT ![i] = newbv],
         new_blob |-> blob1 \o pad4(data),
         cursor   |-> off + ln]

\* One iteration of  for i in order:  on the loop state
\* st = [bvs, new_blob, cursor].
RebuildStep(st, i, original_blob, replacements) ==
    LET bv   == st.bvs[i]
        off  == Or0(bv.byteOffset)
        ln   == Or0(bv.byteLength)
        gap  == IF off > st.cursor
                THEN Slice(original_blob, st.cursor, off)
                ELSE << >>
        blob1 == st.new_blob \o gap
        data == IF i \in DOMAIN replacements
                THEN replacements[i]
                ELSE Slice(original_blob, off, off + ln)
        newbv == [byteOffset |-> Len(blob1),
                  byteLength |-> IF i \in DOMAIN replacements
                                 THEN Len(data) ELSE ln]
    IN  [bvs      |-> [st.bvs EXCEPT ![i] = newbv],
         new_blob |-> blob1 \o pad4(data),
         cursor   |-> off + ln]

RECURSIVE RebuildLoop(_, _, _, _)
RebuildLoop(st, ord, original_blob, replacements) ==
    IF ord = << >> THEN st
    ELSE RebuildLoop(RebuildStep(st, Head(ord), original_blob, replacements),
                     Tail(ord), original_blob, replacements)

\* The rebuilder that drops the trailing bytes after the last region.
AppendTrailer_dropped(st, original_blob) == st.new_blob

\* if cursor < len(original_blob): new_blob += original_blob[cursor:]
AppendTrailer(st, original_blob) ==
    IF st.cursor < Len(original_blob)
    THEN st.new_blob \o Slice(original_blob, st.cursor, Len(original_blob))
    ELSE st.new_blob

\* The whole function, forgetting to rewrite the buffer descriptor.
rebuild_blob_stale_length(bvs, buffers, original_blob, replacements) ==
    IF bvs = << >>
    THEN [raised |-> "No bufferViews found.", bvs |-> bvs,
          buffers |-> buffers, new_blob |-> << >>]
    ELSE LET st  == RebuildLoop([bvs |-> bvs, new_blob |-> << >>, cursor |-> 0],
                                order(bvs), original_blob, replacements)
             out == AppendTrailer(st, original_blob)
         IN  IF buffers = << >>
             THEN [raised |-> "No buffers found.", bvs |-> st.bvs,
                   buffers |-> buffers, new_blob |-> << >>]
             ELSE [raised |-> "", bvs |-> st.bvs,
                   buffers |-> buffers, new_blob |-> out]

\* The whole function, returning the payload of a container that has no
\* buffer descriptor instead of raising.
rebuild_blob_unchecked_buffers(bvs, buffers, original_blob, replacements) ==
    IF bvs = << >>
    THEN [raised |-> "No bufferViews found.", bvs |-> bvs,
          buffers |-> buffers, new_blob |-> << >>]
    ELSE LET st  == RebuildLoop([bvs |-> bvs, new_blob |-> << >>, cursor |-> 0],
                                order(bvs), original_blob, replacements)
             out == AppendTrailer(st, original_blob)
         IN  [raised |-> "", bvs |-> st.bvs,
              buffers |-> IF buffers = << >> THEN buffers
                          ELSE [buffers EXCEPT ![1] = [byteLength |-> Len(out)]],
              new_blob |-> out]

\* The whole function.  Result: raised (the exception message, or "" on a
\* normal return), the bufferViews and buffers as the call leaves them
\* (both are mutated in place), and the returned payload.
rebuild_blob_with_replacements(bvs, buffers, original_blob, replacements) ==
    IF bvs = << >>
    THEN [raised |-> "No bufferViews found.", bvs |-> bvs,
          buffers |-> buffers, new_blob |-> << >>]
    ELSE LET st  == RebuildLoop([bvs |-> bvs, new_blob |-> << >>, cursor |-> 0],
                                order(bvs), original_blob, replacements)
             out == AppendTrailer(st, original_blob)
         IN  IF buffers = << >>
             THEN [raised |-> "No buffers found.", bvs |-> st.bvs,
                   buffers |-> buffers, new_blob |-> << >>]
             ELSE [raised |-> "", bvs |-> st.bvs,
                   buffers |-> [buffers EXCEPT ![1] = [byteLength |-> Len(out)]],
                   new_blob |-> out]

\* ------------------------------------------------------------------ state
VARIABLES
    pc,            \* position of the running optimize_vrm_file / rebuild call
    bvs,           \* gltf.bufferViews: sequence of [byteOffset, byteLength]
    buffers,       \* gltf.buffers: sequence of [byteLength]
    blob,          \* the original payload, gltf.binary_blob()
    images,        \* gltf.images: sequence of [bufferView, mimeType, name]
    materials,     \* gltf.materials: sequence of [normalTexture]
    textures,      \* gltf.textures: sequence of [source]
    settings,      \* the six size / quality arguments of optimize_vrm_file
    policy,        \* history: per image, the (limit, quality) it was encoded with
    decodes,       \* per bufferView: do its bytes decode as an image
    img_index,     \* number of images the loop of line 113 has gone through
    replacements,  \* dict bufferView index -> new bytes
    new_blob,      \* the payload rebuild_blob_with_replacements returned
    raised,        \* message of the exception that ended the call, or ""
    bvs0,          \* gltf.bufferViews as loaded (before any rewrite)
    images0        \* gltf.images as loaded

fileVars == << pc, bvs, buffers, blob, images, materials, textures, settings,
               policy, decodes, img_index, replacements, new_blob, raised,
               bvs0, images0 >>

\* What the image loop reads and never writes.
classVars == << materials, textures, settings >>

VARIABLES
    files,         \* the file system: path -> [kind, edits, size]
    baseline,      \* the six start_* settings of the running search
    target_bytes,  \* int(target_mb * 1024 * 1024)
    max_attempts,
    input_path,
    output_path,
    s_pc,          \* position of optimize_vrm_to_target
    cand,          \* number of candidates the generator has yielded
    yielded,       \* history: the candidates the generator has yielded
    attempts,
    best_size,
    best_cfg,
    outcome,       \* what the search printed last: "hit", "not_met", "" (nothing)
    s_raised,      \* message of the exception that ended the search, or ""
    log,           \* history: one entry per pipeline run of the search
    input0         \* history: the input file as it was when the search began

searchVars == << files, baseline, target_bytes, max_attempts, input_path,
                 output_path, s_pc, cand, yielded, attempts, best_size,
                 best_cfg, outcome, s_raised, log, input0 >>

VARIABLES
    args,          \* the parsed command line
    m_pc,          \* position of main
    input_no,      \* number of inputs the loop of line 334 has finished with
    processed,     \* history: the inputs whose call returned normally
    unmet,         \* history: the inputs whose search returned without a hit
    exit_status    \* the process's exit status, None while it runs

mainVars == << args, m_pc, input_no, processed, unmet, exit_status >>

ioVars == << searchVars, mainVars >>

vars == << fileVars, searchVars, mainVars >>

\* ------------------------------------------ _candidate_settings_for_target
Settings(ms, q, tm, tq, nm, nq) ==
    [max_size |-> ms, webp_quality |-> q, thumb_max |-> tm,
     thumb_quality |-> tq, normal_max |-> nm, normal_quality |-> nq]

\* "Ensure uniqueness while keeping order": keep each value's first occurrence.
RECURSIVE Unique(_)
Unique(s) ==
    IF s = << >> THEN << >>
    ELSE LET init == Unique(SubSeq(s, 1, Len(s) - 1))
             last == s[Len(s)]
         IN  IF \E k \in DOMAIN init : init[k] = last
             THEN init ELSE Append(init, last)

\* size_steps without the de-duplication of lines 198-201.
size_steps_repeating(start) ==
    LET InRange(x) == x <= start.max_size /\ x >= 128
    IN  SelectSeq(<< start.max_size, 448, 384, 320, 256 >>, InRange)

\* size_steps (lines 191-201)
size_steps(start) ==
    LET InRange(x) == x <= start.max_size /\ x >= 128
    IN  Unique(SelectSeq(<< start.max_size, 448, 384, 320, 256 >>, InRange))

\* quality_steps (lines 204-214)
quality_steps(start) ==
    LET InRange(x) == 10 <= x /\ x <= start.webp_quality
    IN  Unique(SelectSeq(<< start.webp_quality, Min(65, start.webp_quality),
                            60, 55, 50, 45 >>, InRange))

\* The dict with a thumbnail quality that has no floor of 30.
Candidate_unfloored(start, s1, q) ==
    Settings(s1, q,
             Min(start.thumb_max, Max(256, s1)),
             Min(start.thumb_quality, q - 10),
             Min(start.normal_max, s1),
             Min(start.normal_quality, Max(40, q + 5)))

\* The dict with a thumbnail size that has no floor of 256.
Candidate_thumb_unfloored(start, s1, q) ==
    Settings(s1, q,
             Min(start.thumb_max, s1),
             Min(start.thumb_quality, Max(30, q - 10)),
             Min(start.normal_max, s1),
             Min(start.normal_quality, Max(40, q + 5)))

\* The dict yielded for the pair (s, q) (lines 219-230)
Candidate(start, s1, q) ==
    Settings(s1, q,
             Min(start.thumb_max, Max(256, s1)),
             Min(start.thumb_quality, Max(30, q - 10)),
             Min(start.normal_max, s1),
             Min(start.normal_quality, Max(40, q + 5)))

\* The generator with resolution as the inner loop: for q in quality_steps:
\* for s in size_steps.
candidate_settings_quality_outer(start) ==
    LET ss == size_steps(start)
        qs == quality_steps(start)
    IN  [k \in 1..(Len(ss) * Len(qs)) |->
            Candidate(start, ss[((k - 1) % Len(ss)) + 1],
                             qs[((k - 1) \div Len(ss)) + 1])]

\* Everything the generator yields, in order: for s in size_steps:
\* for q in quality_steps.
candidate_settings_for_target(start) ==
    LET ss == size_steps(start)
        qs == quality_steps(start)
    IN  [k \in 1..(Len(ss) * Len(qs)) |->
            Candidate(start, ss[((k - 1) \div Len(qs)) + 1],
                             qs[((k - 1) % Len(qs)) + 1])]

\* The argparse defaults of main (lines 325-330).
DefaultSettings == Settings(512, 60, 512, 45, 512, 70)

\* Start settings tried: the defaults; two giving short ladders; one whose
\* own values repeat rungs of both ladders; one with the longest quality
\* ladder; one below the resolution floor and one below the quality floor
\* (no candidate at all).
Baselines ==
    { DefaultSettings,
      Settings(300, 50, 512, 45, 512, 70),
      Settings(256, 50, 512, 45, 512, 70),
      Settings(448, 65, 200, 60, 384, 60),
      Settings(512, 80, 512, 45, 512, 70),
      Settings(100, 60, 512, 45, 512, 70),
      Settings(512, 5, 512, 45, 512, 70) }

\* ------------------------------------------------- image classification
\* Strings the code looks into are sequences of Unicode code points.
\* The case tables below are those of CPython 3.11's str.lower() (Unicode
\* 14.0.0).
\*
\* Code points with a one-character lower case: each row is
\* << first, last, step, offset >> and stands for the code points first,
\* first + step, ..., last, whose lower case is the code point plus offset.
LowerOffsets ==
    <<
    << 65, 90, 1, 32 >>, << 192, 214, 1, 32 >>, << 216, 222, 1, 32 >>,
    << 256, 302, 2, 1 >>, << 306, 310, 2, 1 >>, << 313, 327, 2, 1 >>,
    << 330, 374, 2, 1 >>, << 376, 376, 1, -121 >>, << 377, 381, 2, 1 >>,
    << 385, 385, 1, 210 >>, << 386, 388, 2, 1 >>, << 390, 390, 1, 206 >>,
    << 391, 391, 1, 1 >>, << 393, 394, 1, 205 >>, << 395, 395, 1, 1 >>,
    << 398, 398, 1, 79 >>, << 399, 399, 1, 202 >>, << 400, 400, 1, 203 >>,
    << 401, 401, 1, 1 >>, << 403, 403, 1, 205 >>, << 404, 404, 1, 207 >>,
    << 406, 406, 1, 211 >>, << 407, 407, 1, 209 >>, << 408, 408, 1, 1 >>,
    << 412, 412, 1, 211 >>, << 413, 413, 1, 213 >>, << 415, 415, 1, 214 >>,
    << 416, 420, 2, 1 >>, << 422, 422, 1, 218 >>, << 423, 423, 1, 1 >>,
    << 425, 425, 1, 218 >>, << 428, 428, 1, 1 >>, << 430, 430, 1, 218 >>,
    << 431, 431, 1, 1 >>, << 433, 434, 1, 217 >>, << 435, 437, 2, 1 >>,
    << 439, 439, 1, 219 >>, << 440, 440, 1, 1 >>, << 444, 444, 1, 1 >>,
    << 452, 452, 1, 2 >>, << 453, 453, 1, 1 >>, << 455, 455, 1, 2 >>,
    << 456, 456, 1, 1 >>, << 458, 458, 1, 2 >>, << 459, 475, 2, 1 >>,
    << 478, 494, 2, 1 >>, << 497, 497, 1, 2 >>, << 498, 500, 2, 1 >>,
    << 502, 502, 1, -97 >>, << 503, 503, 1, -56 >>, << 504, 542, 2, 1 >>,
    << 544, 544, 1, -130 >>, << 546, 562, 2, 1 >>, << 570, 570, 1, 10795 >>,
    << 571, 571, 1, 1 >>, << 573, 573, 1, -163 >>, << 574, 574, 1, 10792 >>,
    << 577, 577, 1, 1 >>, << 579, 579, 1, -195 >>, << 580, 580, 1, 69 >>,
    << 581, 581, 1, 71 >>, << 582, 590, 2, 1 >>, << 880, 882, 2, 1 >>,
    << 886, 886, 1, 1 >>, << 895, 895, 1, 116 >>, << 902, 902, 1, 38 >>,
    << 904, 906, 1, 37 >>, << 908, 908, 1, 64 >>, << 910, 911, 1, 63 >>,
    << 913, 929, 1, 32 >>, << 931, 939, 1, 32 >>, << 975, 975, 1, 8 >>,
    << 984, 1006, 2, 1 >>, << 1012, 1012, 1, -60 >>, << 1015, 1015, 1, 1 >>,
    << 1017, 1017, 1, -7 >>, << 1018, 1018, 1, 1 >>,
    << 1021, 1023, 1, -130 >>, << 1024, 1039, 1, 80 >>,
    << 1040, 1071, 1, 32 >>, << 1120, 1152, 2, 1 >>, << 1162, 1214, 2, 1 >>,
    << 1216, 1216, 1, 15 >>, << 1217, 1229, 2, 1 >>, << 1232, 1326, 2, 1 >>,
    << 1329, 1366, 1, 48 >>, << 4256, 4293, 1, 7264 >>,
    << 4295, 4295, 1, 7264 >>, << 4301, 4301, 1, 7264 >>,
    << 5024, 5103, 1, 38864 >>, << 5104, 5109, 1, 8 >>,
    << 7312, 7354, 1, -3008 >>, << 7357, 7359, 1, -3008 >>,
    << 7680, 7828, 2, 1 >>, << 7838, 7838, 1, -7615 >>,
    << 7840, 7934, 2, 1 >>, << 7944, 7951, 1, -8 >>, << 7960, 7965, 1, -8 >>,
    << 7976, 7983, 1, -8 >>, << 7992, 7999, 1, -8 >>, << 8008, 8013, 1, -8 >>,
    << 8025, 8031, 2, -8 >>, << 8040, 8047, 1, -8 >>, << 8072, 8079, 1, -8 >>,
    << 8088, 8095, 1, -8 >>, << 8104, 8111, 1, -8 >>, << 8120, 8121, 1, -8 >>,
    << 8122, 8123, 1, -74 >>, << 8124, 8124, 1, -9 >>,
    << 8136, 8139, 1, -86 >>, << 8140, 8140, 1, -9 >>,
    << 8152, 8153, 1, -8 >>, << 8154, 8155, 1, -100 >>,
    << 8168, 8169, 1, -8 >>, << 8170, 8171, 1, -112 >>,
    << 8172, 8172, 1, -7 >>, << 8184, 8185, 1, -128 >>,
    << 8186, 8187, 1, -126 >>, << 8188, 8188, 1, -9 >>,
    << 8486, 8486, 1, -7517 >>, << 8490, 8490, 1, -8383 >>,
    << 8491, 8491, 1, -8262 >>, << 8498, 8498, 1, 28 >>,
    << 8544, 8559, 1, 16 >>, << 8579, 8579, 1, 1 >>, << 9398, 9423, 1, 26 >>,
    << 11264, 11311, 1, 48 >>, << 11360, 11360, 1, 1 >>,
    << 11362, 11362, 1, -10743 >>, << 11363, 11363, 1, -3814 >>,
    << 11364, 11364, 1, -10727 >>, << 11367, 11371, 2, 1 >>,
    << 11373, 11373, 1, -10780 >>, << 11374, 11374, 1, -10749 >>,
    << 11375, 11375, 1, -10783 >>, << 11376, 11376, 1, -10782 >>,
    << 11378, 11378, 1, 1 >>, << 11381, 11381, 1, 1 >>,
    << 11390, 11391, 1, -10815 >>, << 11392, 11490, 2, 1 >>,
    << 11499, 11501, 2, 1 >>, << 11506, 11506, 1, 1 >>,
    << 42560, 42604, 2, 1 >>, << 42624, 42650, 2, 1 >>,
    << 42786, 42798, 2, 1 >>, << 42802, 42862, 2, 1 >>,
    << 42873, 42875, 2, 1 >>, << 42877, 42877, 1, -35332 >>,
    << 42878, 42886, 2, 1 >>, << 42891, 42891, 1, 1 >>,
    << 42893, 42893, 1, -42280 >>, << 42896, 42898, 2, 1 >>,
    << 42902, 42920, 2, 1 >>, << 42922, 42922, 1, -42308 >>,
    << 42923, 42923, 1, -42319 >>, << 42924, 42924, 1, -42315 >>,
    << 42925, 42925, 1, -42305 >>, << 42926, 42926, 1, -42308 >>,
    << 42928, 42928, 1, -42258 >>, << 42929, 42929, 1, -42282 >>,
    << 42930, 42930, 1, -42261 >>, << 42931, 42931, 1, 928 >>,
    << 42932, 42946, 2, 1 >>, << 42948, 42948, 1, -48 >>,
    << 42949, 42949, 1, -42307 >>, << 42950, 42950, 1, -35384 >>,
    << 42951, 42953, 2, 1 >>, << 42960, 42960, 1, 1 >>,
    << 42966, 42968, 2, 1 >>, << 42997, 42997, 1, 1 >>,
    << 65313, 65338, 1, 32 >>, << 66560, 66599, 1, 40 >>,
    << 66736, 66771, 1, 40 >>, << 66928, 66938, 1, 39 >>,
    << 66940, 66954, 1, 39 >>, << 66956, 66962, 1, 39 >>,
    << 66964, 66965, 1, 39 >>, << 68736, 68786, 1, 64 >>,
    << 71840, 71871, 1, 32 >>, << 93760, 93791, 1, 32 >>,
    << 125184, 125217, 1, 34 >>
    >>

\* Case-ignorable code points, in rows << first, last >>.
CaseIgnorable ==
    <<
    << 39, 39 >>, << 46, 46 >>, << 58, 58 >>, << 94, 94 >>, << 96, 96 >>,
    << 168, 168 >>, << 173, 173 >>, << 175, 175 >>, << 180, 180 >>,
    << 183, 184 >>, << 688, 879 >>, << 884, 885 >>, << 890, 890 >>,
    << 900, 901 >>, << 903, 903 >>, << 1155, 1161 >>, << 1369, 1369 >>,
    << 1375, 1375 >>, << 1425, 1469 >>, << 1471, 1471 >>, << 1473, 1474 >>,
    << 1476, 1477 >>, << 1479, 1479 >>, << 1524, 1524 >>, << 1536, 1541 >>,
    << 1552, 1562 >>, << 1564, 1564 >>, << 1600, 1600 >>, << 1611, 1631 >>,
    << 1648, 1648 >>, << 1750, 1757 >>, << 1759, 1768 >>, << 1770, 1773 >>,
    << 1807, 1807 >>, << 1809, 1809 >>, << 1840, 1866 >>, << 1958, 1968 >>,
    << 2027, 2037 >>, << 2042, 2042 >>, << 2045, 2045 >>, << 2070, 2093 >>,
    << 2137, 2139 >>, << 2184, 2184 >>, << 2192, 2193 >>, << 2200, 2207 >>,
    << 2249, 2306 >>, << 2362, 2362 >>, << 2364, 2364 >>, << 2369, 2376 >>,
    << 2381, 2381 >>, << 2385, 2391 >>, << 2402, 2403 >>, << 2417, 2417 >>,
    << 2433, 2433 >>, << 2492, 2492 >>, << 2497, 2500 >>, << 2509, 2509 >>,
    << 2530, 2531 >>, << 2558, 2558 >>, << 2561, 2562 >>, << 2620, 2620 >>,
    << 2625, 2626 >>, << 2631, 2632 >>, << 2635, 2637 >>, << 2641, 2641 >>,
    << 2672, 2673 >>, << 2677, 2677 >>, << 2689, 2690 >>, << 2748, 2748 >>,
    << 2753, 2757 >>, << 2759, 2760 >>, << 2765, 2765 >>, << 2786, 2787 >>,
    << 2810, 2815 >>, << 2817, 2817 >>, << 2876, 2876 >>, << 2879, 2879 >>,
    << 2881, 2884 >>, << 2893, 2893 >>, << 2901, 2902 >>, << 2914, 2915 >>,
    << 2946, 2946 >>, << 3008, 3008 >>, << 3021, 3021 >>, << 3072, 3072 >>,
    << 3076, 3076 >>, << 3132, 3132 >>, << 3134, 3136 >>, << 3142, 3144 >>,
    << 3146, 3149 >>, << 3157, 3158 >>, << 3170, 3171 >>, << 3201, 3201 >>,
    << 3260, 3260 >>, << 3263, 3263 >>, << 3270, 3270 >>, << 3276, 3277 >>,
    << 3298, 3299 >>, << 3328, 3329 >>, << 3387, 3388 >>, << 3393, 3396 >>,
    << 3405, 3405 >>, << 3426, 3427 >>, << 3457, 3457 >>, << 3530, 3530 >>,
    << 3538, 3540 >>, << 3542, 3542 >>, << 3633, 3633 >>, << 3636, 3642 >>,
    << 3654, 3662 >>, << 3761, 3761 >>, << 3764, 3772 >>, << 3782, 3782 >>,
    << 3784, 3789 >>, << 3864, 3865 >>, << 3893, 3893 >>, << 3895, 3895 >>,
    << 3897, 3897 >>, << 3953, 3966 >>, << 3968, 3972 >>, << 3974, 3975 >>,
    << 3981, 3991 >>, << 3993, 4028 >>, << 4038, 4038 >>, << 4141, 4144 >>,
    << 4146, 4151 >>, << 4153, 4154 >>, << 4157, 4158 >>, << 4184, 4185 >>,
    << 4190, 4192 >>, << 4209, 4212 >>, << 4226, 4226 >>, << 4229, 4230 >>,
    << 4237, 4237 >>, << 4253, 4253 >>, << 4348, 4348 >>, << 4957, 4959 >>,
    << 5906, 5908 >>, << 5938, 5939 >>, << 5970, 5971 >>, << 6002, 6003 >>,
    << 6068, 6069 >>, << 6071, 6077 >>, << 6086, 6086 >>, << 6089, 6099 >>,
    << 6103, 6103 >>, << 6109, 6109 >>, << 6155, 6159 >>, << 6211, 6211 >>,
    << 6277, 6278 >>, << 6313, 6313 >>, << 6432, 6434 >>, << 6439, 6440 >>,
    << 6450, 6450 >>, << 6457, 6459 >>, << 6679, 6680 >>, << 6683, 6683 >>,
    << 6742, 6742 >>, << 6744, 6750 >>, << 6752, 6752 >>, << 6754, 6754 >>,
    << 6757, 6764 >>, << 6771, 6780 >>, << 6783, 6783 >>, << 6823, 6823 >>,
    << 6832, 6862 >>, << 6912, 6915 >>, << 6964, 6964 >>, << 6966, 6970 >>,
    << 6972, 6972 >>, << 6978, 6978 >>, << 7019, 7027 >>, << 7040, 7041 >>,
    << 7074, 7077 >>, << 7080, 7081 >>, << 7083, 7085 >>, << 7142, 7142 >>,
    << 7144, 7145 >>, << 7149, 7149 >>, << 7151, 7153 >>, << 7212, 7219 >>,
    << 7222, 7223 >>, << 7288, 7293 >>, << 7376, 7378 >>, << 7380, 7392 >>,
    << 7394, 7400 >>, << 7405, 7405 >>, << 7412, 7412 >>, << 7416, 7417 >>,
    << 7468, 7530 >>, << 7544, 7544 >>, << 7579, 7679 >>, << 8125, 8125 >>,
    << 8127, 8129 >>, << 8141, 8143 >>, << 8157, 8159 >>, << 8173, 8175 >>,
    << 8189, 8190 >>, << 8203, 8207 >>, << 8216, 8217 >>, << 8228, 8228 >>,
    << 8231, 8231 >>, << 8234, 8238 >>, << 8288, 8292 >>, << 8294, 8303 >>,
    << 8305, 8305 >>, << 8319, 8319 >>, << 8336, 8348 >>, << 8400, 8432 >>,
    << 11388, 11389 >>, << 11503, 11505 >>, << 11631, 11631 >>,
    << 11647, 11647 >>, << 11744, 11775 >>, << 11823, 11823 >>,
    << 12293, 12293 >>, << 12330, 12333 >>, << 12337, 12341 >>,
    << 12347, 12347 >>, << 12441, 12446 >>, << 12540, 12542 >>,
    << 40981, 40981 >>, << 42232, 42237 >>, << 42508, 42508 >>,
    << 42607, 42610 >>, << 42612, 42621 >>, << 42623, 42623 >>,
    << 42652, 42655 >>, << 42736, 42737 >>, << 42752, 42785 >>,
    << 42864, 42864 >>, << 42888, 42890 >>, << 42994, 42996 >>,
    << 43000, 43001 >>, << 43010, 43010 >>, << 43014, 43014 >>,
    << 43019, 43019 >>, << 43045, 43046 >>, << 43052, 43052 >>,
    << 43204, 43205 >>, << 43232, 43249 >>, << 43263, 43263 >>,
    << 43302, 43309 >>, << 43335, 43345 >>, << 43392, 43394 >>,
    << 43443, 43443 >>, << 43446, 43449 >>, << 43452, 43453 >>,
    << 43471, 43471 >>, << 43493, 43494 >>, << 43561, 43566 >>,
    << 43569, 43570 >>, << 43573, 43574 >>, << 43587, 43587 >>,
    << 43596, 43596 >>, << 43632, 43632 >>, << 43644, 43644 >>,
    << 43696, 43696 >>, << 43698, 43700 >>, << 43703, 43704 >>,
    << 43710, 43711 >>, << 43713, 43713 >>, << 43741, 43741 >>,
    << 43756, 43757 >>, << 43763, 43764 >>, << 43766, 43766 >>,
    << 43867, 43871 >>, << 43881, 43883 >>, << 44005, 44005 >>,
    << 44008, 44008 >>, << 44013, 44013 >>, << 64286, 64286 >>,
    << 64434, 64450 >>, << 65024, 65039 >>, << 65043, 65043 >>,
    << 65056, 65071 >>, << 65106, 65106 >>, << 65109, 65109 >>,
    << 65279, 65279 >>, << 65287, 65287 >>, << 65294, 65294 >>,
    << 65306, 65306 >>, << 65342, 65342 >>, << 65344, 65344 >>,
    << 65392, 65392 >>, << 65438, 65439 >>, << 65507, 65507 >>,
    << 65529, 65531 >>, << 66045, 66045 >>, << 66272, 66272 >>,
    << 66422, 66426 >>, << 67456, 67461 >>, << 67463, 67504 >>,
    << 67506, 67514 >>, << 68097, 68099 >>, << 68101, 68102 >>,
    << 68108, 68111 >>, << 68152, 68154 >>, << 68159, 68159 >>,
    << 68325, 68326 >>, << 68900, 68903 >>, << 69291, 69292 >>,
    << 69446, 69456 >>, << 69506, 69509 >>, << 69633, 69633 >>,
    << 69688, 69702 >>, << 69744, 69744 >>, << 69747, 69748 >>,
    << 69759, 69761 >>, << 69811, 69814 >>, << 69817, 69818 >>,
    << 69821, 69821 >>, << 69826, 69826 >>, << 69837, 69837 >>,
    << 69888, 69890 >>, << 69927, 69931 >>, << 69933, 69940 >>,
    << 70003, 70003 >>, << 70016, 70017 >>, << 70070, 70078 >>,
    << 70089, 70092 >>, << 70095, 70095 >>, << 70191, 70193 >>,
    << 70196, 70196 >>, << 70198, 70199 >>, << 70206, 70206 >>,
    << 70367, 70367 >>, << 70371, 70378 >>, << 70400, 70401 >>,
    << 70459, 70460 >>, << 70464, 70464 >>, << 70502, 70508 >>,
    << 70512, 70516 >>, << 70712, 70719 >>, << 70722, 70724 >>,
    << 70726, 70726 >>, << 70750, 70750 >>, << 70835, 70840 >>,
    << 70842, 70842 >>, << 70847, 70848 >>, << 70850, 70851 >>,
    << 71090, 71093 >>, << 71100, 71101 >>, << 71103, 71104 >>,
    << 71132, 71133 >>, << 71219, 71226 >>, << 71229, 71229 >>,
    << 71231, 71232 >>, << 71339, 71339 >>, << 71341, 71341 >>,
    << 71344, 71349 >>, << 71351, 71351 >>, << 71453, 71455 >>,
    << 71458, 71461 >>, << 71463, 71467 >>, << 71727, 71735 >>,
    << 71737, 71738 >>, << 71995, 71996 >>, << 71998, 71998 >>,
    << 72003, 72003 >>, << 72148, 72151 >>, << 72154, 72155 >>,
    << 72160, 72160 >>, << 72193, 72202 >>, << 72243, 72248 >>,
    << 72251, 72254 >>, << 72263, 72263 >>, << 72273, 72278 >>,
    << 72281, 72283 >>, << 72330, 72342 >>, << 72344, 72345 >>,
    << 72752, 72758 >>, << 72760, 72765 >>, << 72767, 72767 >>,
    << 72850, 72871 >>, << 72874, 72880 >>, << 72882, 72883 >>,
    << 72885, 72886 >>, << 73009, 73014 >>, << 73018, 73018 >>,
    << 73020, 73021 >>, << 73023, 73029 >>, << 73031, 73031 >>,
    << 73104, 73105 >>, << 73109, 73109 >>, << 73111, 73111 >>,
    << 73459, 73460 >>, << 78896, 78904 >>, << 92912, 92916 >>,
    << 92976, 92982 >>, << 92992, 92995 >>, << 94031, 94031 >>,
    << 94095, 94111 >>, << 94176, 94177 >>, << 94179, 94180 >>,
    << 110576, 110579 >>, << 110581, 110587 >>, << 110589, 110590 >>,
    << 113821, 113822 >>, << 113824, 113827 >>, << 118528, 118573 >>,
    << 118576, 118598 >>, << 119143, 119145 >>, << 119155, 119170 >>,
    << 119173, 119179 >>, << 119210, 119213 >>, << 119362, 119364 >>,
    << 121344, 121398 >>, << 121403, 121452 >>, << 121461, 121461 >>,
    << 121476, 121476 >>, << 121499, 121503 >>, << 121505, 121519 >>,
    << 122880, 122886 >>, << 122888, 122904 >>, << 122907, 122913 >>,
    << 122915, 122916 >>, << 122918, 122922 >>, << 123184, 123197 >>,
    << 123566, 123566 >>, << 123628, 123631 >>, << 125136, 125142 >>,
    << 125252, 125259 >>, << 127995, 127999 >>, << 917505, 917505 >>,
    << 917536, 917631 >>, << 917760, 917999 >>
    >>

\* Cased code points that are not case-ignorable, in rows << first, last >>.
CasedLetters ==
    <<
    << 65, 90 >>, << 97, 122 >>, << 170, 170 >>, << 181, 181 >>,
    << 186, 186 >>, << 192, 214 >>, << 216, 246 >>, << 248, 442 >>,
    << 444, 447 >>, << 452, 659 >>, << 661, 687 >>, << 880, 883 >>,
    << 886, 887 >>, << 891, 893 >>, << 895, 895 >>, << 902, 902 >>,
    << 904, 906 >>, << 908, 908 >>, << 910, 929 >>, << 931, 1013 >>,
    << 1015, 1153 >>, << 1162, 1327 >>, << 1329, 1366 >>, << 1376, 1416 >>,
    << 4256, 4293 >>, << 4295, 4295 >>, << 4301, 4301 >>, << 4304, 4346 >>,
    << 4349, 4351 >>, << 5024, 5109 >>, << 5112, 5117 >>, << 7296, 7304 >>,
    << 7312, 7354 >>, << 7357, 7359 >>, << 7424, 7467 >>, << 7531, 7543 >>,
    << 7545, 7578 >>, << 7680, 7957 >>, << 7960, 7965 >>, << 7968, 8005 >>,
    << 8008, 8013 >>, << 8016, 8023 >>, << 8025, 8025 >>, << 8027, 8027 >>,
    << 8029, 8029 >>, << 8031, 8061 >>, << 8064, 8116 >>, << 8118, 8124 >>,
    << 8126, 8126 >>, << 8130, 8132 >>, << 8134, 8140 >>, << 8144, 8147 >>,
    << 8150, 8155 >>, << 8160, 8172 >>, << 8178, 8180 >>, << 8182, 8188 >>,
    << 8450, 8450 >>, << 8455, 8455 >>, << 8458, 8467 >>, << 8469, 8469 >>,
    << 8473, 8477 >>, << 8484, 8484 >>, << 8486, 8486 >>, << 8488, 8488 >>,
    << 8490, 8493 >>, << 8495, 8500 >>, << 8505, 8505 >>, << 8508, 8511 >>,
    << 8517, 8521 >>, << 8526, 8526 >>, << 8544, 8575 >>, << 8579, 8580 >>,
    << 9398, 9449 >>, << 11264, 11387 >>, << 11390, 11492 >>,
    << 11499, 11502 >>, << 11506, 11507 >>, << 11520, 11557 >>,
    << 11559, 11559 >>, << 11565, 11565 >>, << 42560, 42605 >>,
    << 42624, 42651 >>, << 42786, 42863 >>, << 42865, 42887 >>,
    << 42891, 42894 >>, << 42896, 42954 >>, << 42960, 42961 >>,
    << 42963, 42963 >>, << 42965, 42969 >>, << 42997, 42998 >>,
    << 43002, 43002 >>, << 43824, 43866 >>, << 43872, 43880 >>,
    << 43888, 43967 >>, << 64256, 64262 >>, << 64275, 64279 >>,
    << 65313, 65338 >>, << 65345, 65370 >>, << 66560, 66639 >>,
    << 66736, 66771 >>, << 66776, 66811 >>, << 66928, 66938 >>,
    << 66940, 66954 >>, << 66956, 66962 >>, << 66964, 66965 >>,
    << 66967, 66977 >>, << 66979, 66993 >>, << 66995, 67001 >>,
    << 67003, 67004 >>, << 68736, 68786 >>, << 68800, 68850 >>,
    << 71840, 71903 >>, << 93760, 93823 >>, << 119808, 119892 >>,
    << 119894, 119964 >>, << 119966, 119967 >>, << 119970, 119970 >>,
    << 119973, 119974 >>, << 119977, 119980 >>, << 119982, 119993 >>,
    << 119995, 119995 >>, << 119997, 120003 >>, << 120005, 120069 >>,
    << 120071, 120074 >>, << 120077, 120084 >>, << 120086, 120092 >>,
    << 120094, 120121 >>, << 120123, 120126 >>, << 120128, 120132 >>,
    << 120134, 120134 >>, << 120138, 120144 >>, << 120146, 120485 >>,
    << 120488, 120512 >>, << 120514, 120538 >>, << 120540, 120570 >>,
    << 120572, 120596 >>, << 120598, 120628 >>, << 120630, 120654 >>,
    << 120656, 120686 >>, << 120688, 120712 >>, << 120714, 120744 >>,
    << 120746, 120770 >>, << 120772, 120779 >>, << 122624, 122633 >>,
    << 122635, 122654 >>, << 125184, 125251 >>, << 127280, 127305 >>,
    << 127312, 127337 >>, << 127344, 127369 >>
    >>

\* The code points the rows << first, last >> of a table stand for.
Listed(table) ==
    UNION { table[k][1]..table[k][2] : k \in DOMAIN table }

CaseIgnorableChars == Listed(CaseIgnorable)

CasedChars == Listed(CasedLetters)

\* The one-character lower cases, code point by code point.
LowerCaseOf ==
    LET row(k) == LowerOffsets[k]
        of(k)  == { row(k)[1] + n * row(k)[3] :
                      n \in 0..((row(k)[2] - row(k)[1]) \div row(k)[3]) }
        cased  == UNION { of(k) : k \in DOMAIN LowerOffsets }
    IN  [c \in cased |->
            c + row(CHOOSE k \in DOMAIN LowerOffsets : c \in of(k))[4]]

\* GREEK CAPITAL LETTER SIGMA, its two lower cases, and LATIN CAPITAL
\* LETTER I WITH DOT ABOVE, which lower-cases to two code points.
Sigma == 931

SmallFinalSigma == 962

SmallSigma == 963

CapitalIDotAbove == 304

SmallIDotAbove == << 105, 775 >>

\* The sigma at position i ends a word: going back over case-ignorable
\* characters there is a cased letter, going forward over them there is none.
final_sigma(str, i) ==
    LET before == { j \in 1..(i - 1) : str[j] \notin CaseIgnorableChars }
        after  == { j \in (i + 1)..Len(str) : str[j] \notin CaseIgnorableChars }
    IN  /\ before # {}
        /\ str[CHOOSE j \in before : \A x \in before : x <= j] \in CasedChars
        /\ \/ after = {}
           \/ str[CHOOSE j \in after : \A x \in after : j <= x] \notin CasedChars

\* The lower case of the character at position i of str.
lower_at(str, i) ==
    LET c == str[i]
    IN  IF c = Sigma
        THEN IF final_sigma(str, i) THEN << SmallFinalSigma >>
                                    ELSE << SmallSigma >>
        ELSE IF c = CapitalIDotAbove
        THEN SmallIDotAbove
        ELSE IF c \in DOMAIN LowerCaseOf
        THEN << LowerCaseOf[c] >>
        ELSE << c >>

RECURSIVE lower_from(_, _)
lower_from(str, i) ==
    IF i > Len(str) THEN << >>
    ELSE lower_at(str, i) \o lower_from(str, i + 1)

\* str.lower()
lower(str) == lower_from(str, 1)

\* Python's  needle in hay  on strings
Contains(hay, needle) ==
    \E i \in 0..(Len(hay) - Len(needle)) :
        SubSeq(hay, i + 1, i + Len(needle)) = needle

\* "thumbnail"
Thumbnail == << 116, 104, 117, 109, 98, 110, 97, 105, 108 >>

\* get_normal_texture_image_indices (lines 28-44): the texture indices the
\* materials name as normalTexture, then the image each such texture (when
\* the index is within gltf.textures) has as source.
get_normal_texture_image_indices(mats, texs) ==
    LET normal_tex_indices ==
            { mats[m].normalTexture :
                m \in { x \in DOMAIN mats : mats[x].normalTexture # None } }
    IN  { texs[t].source :
            t \in { x \in normal_tex_indices :
                      x <= Len(texs) /\ texs[x].source # None } }

\* An image's name: a string, or None (given FALSE).
Name(str) == [given |-> TRUE, str |-> str]

NoName == [given |-> FALSE, str |-> << >>]

\* (getattr(img, "name", "") or "")
NameOrEmpty(name) == IF name.given THEN name.str ELSE << >>

NoPolicy == [limit |-> 0, quality |-> 0]

\* The classification that looks at the normal-map set first.
PolicyFor_normal_first(idx, img, normal_image_indices, cfg) ==
    LET name      == lower(NameOrEmpty(img.name))
        is_thumb  == Contains(name, Thumbnail)
        is_normal == idx \in normal_image_indices
    IN  IF is_normal
        THEN [limit |-> cfg.normal_max, quality |-> cfg.normal_quality]
        ELSE IF is_thumb
        THEN [limit |-> cfg.thumb_max, quality |-> cfg.thumb_quality]
        ELSE [limit |-> cfg.max_size, quality |-> cfg.webp_quality]

\* Lines 130-142: the (limit, quality) image number idx is resized and
\* encoded with.
PolicyFor(idx, img, normal_image_indices, cfg) ==
    LET name      == lower(NameOrEmpty(img.name))
        is_thumb  == Contains(name, Thumbnail)
        is_normal == idx \in normal_image_indices
    IN  IF is_thumb
        THEN [limit |-> cfg.thumb_max, quality |-> cfg.thumb_quality]
        ELSE IF is_normal
        THEN [limit |-> cfg.normal_max, quality |-> cfg.normal_quality]
        ELSE [limit |-> cfg.max_size, quality |-> cfg.webp_quality]

\* ------------------------------------------------------------ file system
\* A file is [kind, edits, size]: kind says what load_binary finds in it,
\* edits is the list of settings it has been re-encoded with since the
\* original (lossy, so each run leaves different bytes), size its length.
Absent == [kind |-> "absent", edits |-> << >>, size |-> 0]

Original(kind) == [kind |-> kind, edits |-> << >>, size |-> (MaxSizeMb + 1) * MiB]

\* What load_binary can find: a container the pipeline can process, or one
\* without images, without bufferViews, without buffers.
ContainerKinds == { "vrm", "no_images", "no_bufferviews", "no_buffers" }

\* os.path.getsize(output_path) after a run.
Sizes == { m * MiB : m \in 1..MaxSizeMb }

\* The exception optimize_vrm_file ends with on a container of this kind
\* ("" when it returns): lines 110-111, 48-49, 82-83.
FatalMessage(kind) ==
    CASE kind = "no_images" -> "No images found in the model."
      [] kind = "no_bufferviews" -> "No bufferViews found."
      [] kind = "no_buffers" -> "No buffers found."
      [] OTHER -> ""

\* The file optimize_vrm_file saves: the loaded container re-encoded once
\* more, with settings cfg.
Saved(loaded, cfg, size) ==
    [kind |-> loaded.kind, edits |-> Append(loaded.edits, cfg), size |-> size]

Path(i, suffixed) == [file |-> i, suffixed |-> suffixed]

NoSettings == Settings(0, 0, 0, 0, 0, 0)

\* What a container file holds, byte for byte: the structure pygltflib
\* reads and writes (bufferViews, buffers, images) and the binary payload.
Container(b, bf, im, payload) ==
    [bufferViews |-> b, buffers |-> bf, images |-> im, blob |-> payload]

\* optimize_vrm_to_target() is not running.
NoSearch ==
    /\ baseline = NoSettings
    /\ target_bytes = 0
    /\ max_attempts = 0
    /\ s_pc = "idle"
    /\ cand = 0
    /\ yielded = << >>
    /\ attempts = 0
    /\ best_size = None
    /\ best_cfg = NoSettings
    /\ outcome = ""
    /\ s_raised = ""
    /\ log = << >>
    /\ input0 = Absent

\* No search running and no file in play.
SearchIdle ==
    /\ NoSearch
    /\ files = << >>
    /\ input_path = Path(0, FALSE)
    /\ output_path = Path(0, FALSE)

MainIdle ==
    /\ args = << >>
    /\ m_pc = "idle"
    /\ input_no = 0
    /\ processed = {}
    /\ unmet = {}
    /\ exit_status = None

\* No file being processed at the level of its bytes.
FileIdle ==
    /\ pc = "idle"
    /\ bvs = << >>
    /\ bvs0 = << >>
    /\ buffers = << >>
    /\ blob = << >>
    /\ images = << >>
    /\ images0 = << >>
    /\ materials = << >>
    /\ textures = << >>
    /\ settings = NoSettings
    /\ policy = << >>
    /\ decodes = << >>
    /\ img_index = 0
    /\ replacements = << >>
    /\ new_blob = << >>
    /\ raised = ""

\* ------------------------------------------------------- input containers
\* A bufferView inside the payload, at least one byte long.
Regions ==
    { [byteOffset |-> o, byteLength |-> l] :
        o \in 0..(BlobLen - 1), l \in 1..BlobLen }

InBounds(r) == r.byteOffset + r.byteLength <= BlobLen

Overlap(a, b) ==
    /\ a.byteOffset < b.byteOffset + b.byteLength
    /\ b.byteOffset < a.byteOffset + a.byteLength

NonOverlapping(t) ==
    \A i \in DOMAIN t : \A j \in DOMAIN t : i # j => ~Overlap(t[i], t[j])

\* Region tables of a well-formed container: every region inside the
\* payload, no two overlapping; any index order, any gaps.
RegionTables ==
    UNION { { t \in [1..n -> { r \in Regions : InBounds(r) }] : NonOverlapping(t) } :
            n \in 0..MaxRegions }

\* gltf.buffers: none, or the one buffer descriptor (length of the payload).
BufferLists == { << >>, << [byteLength |-> BlobLen] >> }

\* Every replacement dict over the bufferViews 1..n.
ReplacementSets(n) ==
    UNION { { [i \in D |-> NewBytes(i, k[i])] : k \in [D -> 0..MaxRepLen] } :
            D \in SUBSET (1..n) }

\* gltf.images of a container with n bufferViews: each image is stored in a
\* bufferView or (bufferView None) outside the payload, and has no name.
ImageLists(n) ==
    UNION { [1..m -> [bufferView : {None} \cup (1..n),
                      mimeType : {"image/png"},
                      name : {NoName}]] :
            m \in 0..MaxImages }

\* Which bufferViews hold bytes that decode as an image.  Only the bytes of
\* a bufferView some image refers to are ever handed to the decoder.
DecodeOutcomes(n, imgs) ==
    { d \in [1..n -> BOOLEAN] :
        \A b \in 1..n :
            (\A k \in DOMAIN imgs : imgs[k].bufferView # b) => d[b] }

\* -------------------------------------- rebuild_blob_with_replacements()
\* A larger container: a payload of 37 bytes with three regions of lengths
\* 10, 7 and 5 at offsets 0, 16 and 32, the second one replaced by 3 bytes.
ScenarioBlob == [o1 \in 1..37 |-> o1]

ScenarioRegions ==
    << [byteOffset |-> 0, byteLength |-> 10],
       [byteOffset |-> 16, byteLength |-> 7],
       [byteOffset |-> 32, byteLength |-> 5] >>

ScenarioReplacements == [i \in {2} |-> NewBytes(2, 3)]

\* The function called on its own, on any replacement set: on every small
\* container, and on the larger one.
InitRebuild ==
    /\ SearchIdle
    /\ MainIdle
    /\ pc = "rebuild"
    /\ \/ /\ bvs \in RegionTables
          /\ buffers \in BufferLists
          /\ blob = OriginalBlob
          /\ replacements \in ReplacementSets(Len(bvs))
       \/ /\ bvs = ScenarioRegions
          /\ buffers = << [byteLength |-> Len(ScenarioBlob)] >>
          /\ blob = ScenarioBlob
          /\ replacements = ScenarioReplacements
    /\ bvs0 = bvs
    /\ images = << >>
    /\ images0 = << >>
    /\ materials = << >>
    /\ textures = << >>
    /\ settings = NoSettings
    /\ policy = << >>
    /\ decodes = << >>
    /\ img_index = 0
    /\ new_blob = << >>
    /\ raised = ""

\* The call  new_blob = rebuild_blob_with_replacements(gltf, blob, replacements)
\* on its own: the function touches no file.
Rebuild ==
    /\ pc = "rebuild"
    /\ LET r == rebuild_blob_with_replacements(bvs, buffers, blob, replacements)
       IN  /\ bvs' = r.bvs
           /\ buffers' = r.buffers
           /\ new_blob' = r.new_blob
           /\ raised' = r.raised
           /\ pc' = IF r.raised = "" THEN "returned" ELSE "raised"
    /\ UNCHANGED << blob, images, decodes, img_index, replacements, bvs0, images0 >>
    /\ UNCHANGED << classVars, policy >>
    /\ UNCHANGED ioVars

NextRebuild == Rebuild

SpecRebuild == InitRebuild /\ [][NextRebuild]_vars

\* ---------------------------------------------------- optimize_vrm_file()
\* The arguments input_path and output_path, and the file system the call
\* starts on: the input file holds the container load_binary has read,
\* nothing is at output_path yet.
LoadedFrom(inp, out) ==
    /\ input_path = inp
    /\ output_path = out
    /\ files = [p \in {inp} |-> Container(bvs, buffers, images, blob)]

\* State after  gltf = GLTF2().load_binary(...); blob = gltf.binary_blob()
\* and  replacements = {}  (lines 99-108).
InitPipeline ==
    /\ NoSearch
    /\ MainIdle
    /\ pc = "loaded"
    /\ bvs \in RegionTables
    /\ bvs0 = bvs
    /\ buffers \in BufferLists
    /\ blob = OriginalBlob
    /\ images \in ImageLists(Len(bvs))
    /\ images0 = images
    /\ materials = << >>
    /\ textures = << >>
    /\ settings = DefaultSettings
    /\ policy = [k \in DOMAIN images |-> NoPolicy]
    /\ decodes \in DecodeOutcomes(Len(bvs), images)
    /\ img_index = 0
    /\ replacements = << >>
    /\ new_blob = << >>
    /\ raised = ""
    /\ LoadedFrom(Path(1, FALSE), Path(1, TRUE))

\* if not gltf.images: raise SystemExit("No images found in the model.")
CheckImages ==
    /\ pc = "loaded"
    /\ IF images = << >>
       THEN /\ pc' = "raised"
            /\ raised' = "No images found in the model."
       ELSE /\ pc' = "images"
            /\ UNCHANGED raised
    /\ UNCHANGED << bvs, buffers, blob, images, decodes, img_index,
                    replacements, new_blob, bvs0, images0 >>
    /\ UNCHANGED << classVars, policy >>
    /\ UNCHANGED ioVars

\* The image the loop of line 113 is at.
CurrentImage == images[img_index + 1]

\* bv_index is None: continue
SkipNoBufferView ==
    /\ pc = "images"
    /\ img_index < Len(images)
    /\ CurrentImage.bufferView = None
    /\ img_index' = img_index + 1
    /\ UNCHANGED << pc, bvs, buffers, blob, images, decodes,
                    replacements, new_blob, raised, bvs0, images0 >>
    /\ UNCHANGED << classVars, policy >>
    /\ UNCHANGED ioVars

\* The decode failure that still marks the image as re-encoded.
SkipUndecodable_marks ==
    /\ pc = "images"
    /\ img_index < Len(images)
    /\ CurrentImage.bufferView # None
    /\ ~decodes[CurrentImage.bufferView]
    /\ img_index' = img_index + 1
    /\ images' = [images EXCEPT ![img_index + 1].mimeType = "image/webp"]
    /\ UNCHANGED << pc, bvs, buffers, blob, decodes,
                    replacements, new_blob, raised, bvs0, images0 >>
    /\ UNCHANGED << classVars, policy >>
    /\ UNCHANGED ioVars

\* Image.open / im.load raise: print "Skipping image[...]" and continue
SkipUndecodable ==
    /\ pc = "images"
    /\ img_index < Len(images)
    /\ CurrentImage.bufferView # None
    /\ ~decodes[CurrentImage.bufferView]
    /\ img_index' = img_index + 1
    /\ UNCHANGED << pc, bvs, buffers, blob, images, decodes,
                    replacements, new_blob, raised, bvs0, images0 >>
    /\ UNCHANGED << classVars, policy >>
    /\ UNCHANGED ioVars

\* The image decodes: pick the (limit, quality) of its class, resize, encode
\* as WebP (the encoder's output is any non-empty byte string), register the
\* replacement, set the MIME type.
ReencodeImage ==
    /\ pc = "images"
    /\ img_index < Len(images)
    /\ CurrentImage.bufferView # None
    /\ decodes[CurrentImage.bufferView]
    /\ \E n \in 1..MaxRepLen :
          LET b == CurrentImage.bufferView
          IN  replacements' =
                 [i \in (DOMAIN replacements) \cup {b} |->
                     IF i = b THEN NewBytes(b, n) ELSE replacements[i]]
    /\ policy' = [policy EXCEPT ![img_index + 1] =
                      PolicyFor(img_index + 1, CurrentImage,
                                get_normal_texture_image_indices(materials, textures),
                                settings)]
    /\ images' = [images EXCEPT ![img_index + 1].mimeType = "image/webp"]
    /\ img_index' = img_index + 1
    /\ UNCHANGED << pc, bvs, buffers, blob, decodes,
                    new_blob, raised, bvs0, images0 >>
    /\ UNCHANGED classVars
    /\ UNCHANGED ioVars

\* The loop is over: line 163 onwards.
EndOfImages ==
    /\ pc = "images"
    /\ img_index = Len(images)
    /\ pc' = "rebuild"
    /\ UNCHANGED << bvs, buffers, blob, images, decodes, img_index,
                    replacements, new_blob, raised, bvs0, images0 >>
    /\ UNCHANGED << classVars, policy >>
    /\ UNCHANGED ioVars

\* Lines 163-172, the end of optimize_vrm_file:
\*   new_blob = rebuild_blob_with_replacements(gltf, blob, replacements)
\*   gltf.set_binary_blob(new_blob)
\*   output_path.parent.mkdir(parents=True, exist_ok=True)
\*   gltf.save_binary(str(output_path))
\* and then the reload of the written file and the two getsize() calls, which
\* only print.  When the rebuild raises, nothing is written.
RebuildAndSave ==
    /\ pc = "rebuild"
    /\ \E r \in { rebuild_blob_with_replacements(bvs, buffers, blob, replacements) } :
           /\ bvs' = r.bvs
           /\ buffers' = r.buffers
           /\ new_blob' = r.new_blob
           /\ raised' = r.raised
           /\ pc' = IF r.raised = "" THEN "returned" ELSE "raised"
           /\ files' = IF r.raised = ""
                       THEN [p \in DOMAIN files \cup {output_path} |->
                               IF p = output_path
                               THEN Container(r.bvs, r.buffers, images, r.new_blob)
                               ELSE files[p]]
                       ELSE files
    /\ UNCHANGED << blob, images, decodes, img_index, replacements, bvs0, images0 >>
    /\ UNCHANGED << classVars, policy >>
    /\ UNCHANGED << baseline, target_bytes, max_attempts, input_path,
                    output_path, s_pc, cand, yielded, attempts, best_size,
                    best_cfg, outcome, s_raised, log, input0 >>
    /\ UNCHANGED mainVars

NextPipeline ==
    \/ CheckImages
    \/ SkipNoBufferView
    \/ SkipUndecodable
    \/ ReencodeImage
    \/ EndOfImages
    \/ RebuildAndSave

SpecPipeline == InitPipeline /\ [][NextPipeline]_vars

\* ------------------------------- optimize_vrm_file(): classifying images
\* Image names: none; "\u00C9\u03A3 MyThumbNAIL\u03A3", which holds the word in
\* mixed case between an accented capital, a sigma inside a word and one at
\* the end of a word; "thumbnai_l", which stops a letter short of it;
\* "THUMBNA\u0130L", whose dotted capital I lower-cases to an i and a
\* combining dot, so that the lower-cased name is longer and has no
\* "thumbnail" in it.
ImageNames ==
    { NoName,
      Name(<< 201, 931, 32, 77, 121, 84, 104, 117, 109, 98, 78, 65, 73, 76, 931 >>),
      Name(<< 116, 104, 117, 109, 98, 110, 97, 105, 95, 108 >>),
      Name(<< 84, 72, 85, 77, 66, 78, 65, 304, 76 >>) }

\* gltf.images with names: every image stored in bufferView 1, or outside
\* the payload (then its name is never read).
NamedImageLists ==
    UNION { [1..m -> [bufferView : {1}, mimeType : {"image/png"}, name : ImageNames]
                     \cup [bufferView : {None}, mimeType : {"image/png"}, name : {NoName}]] :
            m \in 0..MaxImages }

\* gltf.materials: each with a normalTexture index (possibly past the end of
\* gltf.textures) or none.
MaterialLists ==
    UNION { [1..m -> [normalTexture : {None} \cup (1..(MaxTextures + 1))]] :
            m \in 0..MaxMaterials }

\* gltf.textures: each with an image as source or none.
TextureLists ==
    UNION { [1..t -> [source : {None} \cup (1..MaxImages)]] :
            t \in 0..MaxTextures }

\* State after the load, for a container whose payload is one bufferView,
\* with any names, materials and textures.
InitClassify ==
    /\ NoSearch
    /\ MainIdle
    /\ pc = "loaded"
    /\ bvs = << [byteOffset |-> 0, byteLength |-> BlobLen] >>
    /\ bvs0 = bvs
    /\ buffers = << [byteLength |-> BlobLen] >>
    /\ blob = OriginalBlob
    /\ images \in NamedImageLists
    /\ images0 = images
    /\ materials \in MaterialLists
    /\ textures \in TextureLists
    /\ settings = DefaultSettings
    /\ policy = [k \in DOMAIN images |-> NoPolicy]
    /\ decodes \in DecodeOutcomes(1, images)
    /\ img_index = 0
    /\ replacements = << >>
    /\ new_blob = << >>
    /\ raised = ""
    /\ LoadedFrom(Path(1, FALSE), Path(1, TRUE))

SpecClassify == InitClassify /\ [][NextPipeline]_vars

\* ------------------------------------------------ optimize_vrm_to_target()
\* The (input_path, output_path) pairs main can hand over for input file i:
\* the same path (--inplace, or an empty --suffix), or the suffixed name.
PathPairs(i) == { << Path(i, FALSE), Path(i, FALSE) >>,
                  << Path(i, FALSE), Path(i, TRUE) >> }

\* The function called on its own: any start settings, target and attempt
\* budget, on an existing input file; state at line 255 (attempts = 0).
InitSearch ==
    /\ FileIdle
    /\ MainIdle
    /\ baseline \in Baselines
    /\ \E mb \in 0..(MaxSizeMb - 1) : target_bytes = mb * MiB
    /\ max_attempts \in 0..MaxAttempts
    /\ \E pp \in PathPairs(1) :
          /\ input_path = pp[1]
          /\ output_path = pp[2]
    /\ \E k \in ContainerKinds :
          /\ files = [q \in { Path(1, FALSE), Path(1, TRUE) } |->
                         IF q = Path(1, FALSE) THEN Original(k) ELSE Absent]
          /\ input0 = Original(k)
    /\ s_pc = "loop"
    /\ cand = 0
    /\ yielded = << >>
    /\ attempts = 0
    /\ best_size = None
    /\ best_cfg = NoSettings
    /\ outcome = ""
    /\ s_raised = ""
    /\ log = << >>

\* The cfg the generator yields next.
NextCandidate == candidate_settings_for_target(baseline)[cand + 1]

HasNextCandidate == cand < Len(candidate_settings_for_target(baseline))

\* The target test that misses an output of exactly the target size.
HitsTarget_strict(out_size, target) == out_size < target

\* if out_size <= target_bytes
HitsTarget(out_size, target) == out_size <= target

\* The best-so-far test that keeps the latest attempt instead.
IsBetter_latest(out_size, best) == best = None \/ out_size >= best

\* if best_size is None or out_size < best_size
IsBetter(out_size, best) == best = None \/ out_size < best

\* gltf = GLTF2().load_binary(str(input_path)) in the attempt's pipeline run
LoadedByAttempt == files[input_path]

\* The loop body comparing the attempt count with the budget before
\* counting the attempt.
SearchAttempt_late_check ==
    /\ s_pc = "loop"
    /\ HasNextCandidate
    /\ attempts <= max_attempts
    /\ FatalMessage(LoadedByAttempt.kind) = ""
    /\ \E out_size \in Sizes :
          LET cfg == NextCandidate
              loaded == LoadedByAttempt
          IN  /\ files' = [files EXCEPT ![output_path] = Saved(loaded, cfg, out_size)]
              /\ log' = Append(log, [cfg |-> cfg, size |-> out_size, loaded |-> loaded])
              /\ IF IsBetter(out_size, best_size)
                 THEN best_size' = out_size /\ best_cfg' = cfg
                 ELSE UNCHANGED << best_size, best_cfg >>
              /\ IF HitsTarget(out_size, target_bytes)
                 THEN s_pc' = "returned" /\ outcome' = "hit"
                 ELSE UNCHANGED << s_pc, outcome >>
    /\ cand' = cand + 1
    /\ yielded' = Append(yielded, NextCandidate)
    /\ attempts' = attempts + 1
    /\ UNCHANGED << baseline, target_bytes, max_attempts, input_path,
                    output_path, s_raised, input0 >>
    /\ UNCHANGED << fileVars, mainVars >>

\* One pass of the loop body, lines 264-294, with a pipeline run that
\* returns: the run saves its output, the size is measured, the best is
\* tracked, and the search returns at once when the size meets the target.
SearchAttempt ==
    /\ s_pc = "loop"
    /\ HasNextCandidate
    /\ attempts + 1 <= max_attempts
    /\ FatalMessage(LoadedByAttempt.kind) = ""
    /\ \E out_size \in Sizes :
          LET cfg == NextCandidate
              loaded == LoadedByAttempt
          IN  /\ files' = [files EXCEPT ![output_path] = Saved(loaded, cfg, out_size)]
              /\ log' = Append(log, [cfg |-> cfg, size |-> out_size, loaded |-> loaded])
              /\ IF IsBetter(out_size, best_size)
                 THEN best_size' = out_size /\ best_cfg' = cfg
                 ELSE UNCHANGED << best_size, best_cfg >>
              /\ IF HitsTarget(out_size, target_bytes)
                 THEN s_pc' = "returned" /\ outcome' = "hit"
                 ELSE UNCHANGED << s_pc, outcome >>
    /\ cand' = cand + 1
    /\ yielded' = Append(yielded, NextCandidate)
    /\ attempts' = attempts + 1
    /\ UNCHANGED << baseline, target_bytes, max_attempts, input_path,
                    output_path, s_raised, input0 >>
    /\ UNCHANGED << fileVars, mainVars >>

\* The loop body with a pipeline run that raises (a container without
\* images, bufferViews or buffers): the exception leaves the search.
SearchAttemptRaises ==
    /\ s_pc = "loop"
    /\ HasNextCandidate
    /\ attempts + 1 <= max_attempts
    /\ FatalMessage(LoadedByAttempt.kind) # ""
    /\ s_raised' = FatalMessage(LoadedByAttempt.kind)
    /\ s_pc' = "raised"
    /\ cand' = cand + 1
    /\ yielded' = Append(yielded, NextCandidate)
    /\ attempts' = attempts + 1
    /\ UNCHANGED << files, baseline, target_bytes, max_attempts, input_path,
                    output_path, best_size, best_cfg, outcome, log, input0 >>
    /\ UNCHANGED << fileVars, mainVars >>

\* Lines 296-300: the report after the loop.
ReportAfterLoop ==
    outcome' = IF best_size # None /\ best_cfg # NoSettings THEN "not_met" ELSE ""

\* attempts > max_attempts: break (the generator has yielded one more
\* candidate and attempts has counted it), then the report.
SearchBudgetBreak ==
    /\ s_pc = "loop"
    /\ HasNextCandidate
    /\ attempts + 1 > max_attempts
    /\ cand' = cand + 1
    /\ yielded' = Append(yielded, NextCandidate)
    /\ attempts' = attempts + 1
    /\ ReportAfterLoop
    /\ s_pc' = "returned"
    /\ UNCHANGED << files, baseline, target_bytes, max_attempts, input_path,
                    output_path, best_size, best_cfg, s_raised, log, input0 >>
    /\ UNCHANGED << fileVars, mainVars >>

\* The generator is exhausted: the loop ends, then the report.
SearchExhausted ==
    /\ s_pc = "loop"
    /\ ~HasNextCandidate
    /\ ReportAfterLoop
    /\ s_pc' = "returned"
    /\ UNCHANGED << files, baseline, target_bytes, max_attempts, input_path,
                    output_path, cand, yielded, attempts, best_size,
                    best_cfg, s_raised, log, input0 >>
    /\ UNCHANGED << fileVars, mainVars >>

NextSearch ==
    \/ SearchAttempt
    \/ SearchAttemptRaises
    \/ SearchBudgetBreak
    \/ SearchExhausted

SpecSearch == InitSearch /\ [][NextSearch]_vars

\* -------------------------------------- _candidate_settings_for_target()
\* Start settings the generator is run on by itself: values below, on,
\* between and above the rungs of both ladders and the floors and offsets
\* of the derived values.
GeneratorBaselines ==
    { Settings(ms, q, tm, tq, nm, nq) :
        ms \in { 100, 128, 200, 256, 300, 448, 512, 600 },
        q  \in { 5, 10, 25, 30, 45, 47, 60, 65, 80, 100 },
        tm \in { 128, 512 },
        tq \in { 20, 45, 90 },
        nm \in { 200, 512 },
        nq \in { 30, 70, 100 } }

\* The generator just created, nothing yielded yet.
InitGenerator ==
    /\ FileIdle
    /\ MainIdle
    /\ files = << >>
    /\ baseline \in GeneratorBaselines
    /\ target_bytes = 0
    /\ max_attempts = 0
    /\ input_path = Path(0, FALSE)
    /\ output_path = Path(0, FALSE)
    /\ s_pc = "generating"
    /\ cand = 0
    /\ yielded = << >>
    /\ attempts = 0
    /\ best_size = None
    /\ best_cfg = NoSettings
    /\ outcome = ""
    /\ s_raised = ""
    /\ log = << >>
    /\ input0 = Absent

\* next() on the generator: the yield of line 221.
GeneratorYields ==
    /\ s_pc = "generating"
    /\ HasNextCandidate
    /\ yielded' = Append(yielded, NextCandidate)
    /\ cand' = cand + 1
    /\ UNCHANGED << files, baseline, target_bytes, max_attempts, input_path,
                    output_path, s_pc, attempts, best_size, best_cfg,
                    outcome, s_raised, log, input0 >>
    /\ UNCHANGED << fileVars, mainVars >>

\* next() after the last candidate: both loops are over.
GeneratorExhausted ==
    /\ s_pc = "generating"
    /\ ~HasNextCandidate
    /\ s_pc' = "exhausted"
    /\ UNCHANGED << files, baseline, target_bytes, max_attempts, input_path,
                    output_path, cand, yielded, attempts, best_size, best_cfg,
                    outcome, s_raised, log, input0 >>
    /\ UNCHANGED << fileVars, mainVars >>

NextGenerator ==
    \/ GeneratorYields
    \/ GeneratorExhausted

SpecGenerator == InitGenerator /\ [][NextGenerator]_vars

\* ------------------------------------------------------------------ main()
\* What the command line names as one input: a container of some kind, a
\* path that does not exist, or an existing file whose suffix is not .vrm.
InputKinds == ContainerKinds \cup { "missing", "not_vrm" }

\* Start settings given on the command line.
MainBaselines ==
    { DefaultSettings,
      Settings(300, 50, 512, 45, 512, 70),
      Settings(256, 50, 512, 45, 512, 70),
      Settings(100, 60, 512, 45, 512, 70) }

\* args.inputs is a list of kinds (input i is the file Path(i, FALSE));
\* args.same_path says the output path is the input path (--inplace, or
\* --suffix ""); args.target_mb is None without --target-mb.
ArgsSet ==
    UNION { [inputs : [1..n -> InputKinds],
             same_path : BOOLEAN,
             target_mb : {None, MaxSizeMb - 1},
             settings : MainBaselines] : n \in 1..MaxInputs }

FileOfKind(kind) ==
    CASE kind = "missing" -> Absent
      [] kind = "not_vrm" -> Original("vrm")
      [] OTHER -> Original(kind)

\* State at line 334, after parse_args.
InitMain ==
    /\ FileIdle
    /\ args \in ArgsSet
    /\ m_pc = "loop"
    /\ input_no = 0
    /\ processed = {}
    /\ unmet = {}
    /\ exit_status = None
    /\ files = [q \in { Path(i, sfx) : i \in 1..Len(args.inputs), sfx \in BOOLEAN } |->
                   IF q.suffixed THEN Absent
                   ELSE FileOfKind(args.inputs[q.file])]
    /\ baseline = NoSettings
    /\ target_bytes = 0
    /\ max_attempts = 0
    /\ input_path = Path(0, FALSE)
    /\ output_path = Path(0, FALSE)
    /\ s_pc = "idle"
    /\ cand = 0
    /\ yielded = << >>
    /\ attempts = 0
    /\ best_size = None
    /\ best_cfg = NoSettings
    /\ outcome = ""
    /\ s_raised = ""
    /\ log = << >>
    /\ input0 = Absent

\* The input the loop of line 334 is at.
CurrentInput == input_no + 1

CurrentOutputPath ==
    IF args.same_path THEN Path(CurrentInput, FALSE) ELSE Path(CurrentInput, TRUE)

\* raise SystemExit(...): the process ends with status 1, and so it does
\* when an exception leaves main.
ExitWithError ==
    /\ m_pc' = "exited"
    /\ exit_status' = 1
    /\ UNCHANGED << args, input_no, processed, unmet >>

\* Going on with the next input instead of leaving.
MainInputRejected_goes_on ==
    /\ m_pc = "loop"
    /\ input_no < Len(args.inputs)
    /\ args.inputs[CurrentInput] \in { "missing", "not_vrm" }
    /\ input_no' = input_no + 1
    /\ UNCHANGED << args, m_pc, processed, unmet, exit_status >>
    /\ UNCHANGED << fileVars, searchVars >>

\* if not input_path.exists(): raise SystemExit("Input not found: ...")
\* if input_path.suffix.lower() != ".vrm": raise SystemExit("Not a .vrm file: ...")
MainInputRejected ==
    /\ m_pc = "loop"
    /\ input_no < Len(args.inputs)
    /\ args.inputs[CurrentInput] \in { "missing", "not_vrm" }
    /\ ExitWithError
    /\ UNCHANGED << fileVars, searchVars >>

\* args.target_mb is not None: the call of optimize_vrm_to_target (lines
\* 347-357), up to line 255 in it.
MainCallSearch ==
    /\ m_pc = "loop"
    /\ input_no < Len(args.inputs)
    /\ args.inputs[CurrentInput] \notin { "missing", "not_vrm" }
    /\ args.target_mb # None
    /\ m_pc' = "in_search"
    /\ baseline' = args.settings
    /\ target_bytes' = args.target_mb * MiB
    /\ max_attempts' = DefaultMaxAttempts
    /\ input_path' = Path(CurrentInput, FALSE)
    /\ output_path' = CurrentOutputPath
    /\ s_pc' = "loop"
    /\ cand' = 0
    /\ yielded' = << >>
    /\ attempts' = 0
    /\ best_size' = None
    /\ best_cfg' = NoSettings
    /\ outcome' = ""
    /\ s_raised' = ""
    /\ log' = << >>
    /\ input0' = files[Path(CurrentInput, FALSE)]
    /\ UNCHANGED << files, args, input_no, processed, unmet, exit_status >>
    /\ UNCHANGED fileVars

\* optimize_vrm_to_target returned: next input.
MainSearchReturned ==
    /\ m_pc = "in_search"
    /\ s_pc = "returned"
    /\ processed' = processed \cup { CurrentInput }
    /\ unmet' = IF outcome = "hit" THEN unmet ELSE unmet \cup { CurrentInput }
    /\ input_no' = input_no + 1
    /\ m_pc' = "loop"
    /\ s_pc' = "idle"
    /\ UNCHANGED << args, exit_status >>
    /\ UNCHANGED << files, baseline, target_bytes, max_attempts, input_path,
                    output_path, cand, yielded, attempts, best_size,
                    best_cfg, outcome, s_raised, log, input0 >>
    /\ UNCHANGED fileVars

\* The exception of a pipeline run leaves optimize_vrm_to_target and main.
MainSearchRaised ==
    /\ m_pc = "in_search"
    /\ s_pc = "raised"
    /\ ExitWithError
    /\ UNCHANGED << fileVars, searchVars >>

\* args.target_mb is None: one call of optimize_vrm_file (lines 359-368)
\* with the settings of the command line, which returns.
MainSingleFile ==
    /\ m_pc = "loop"
    /\ input_no < Len(args.inputs)
    /\ args.inputs[CurrentInput] \notin { "missing", "not_vrm" }
    /\ args.target_mb = None
    /\ FatalMessage(files[Path(CurrentInput, FALSE)].kind) = ""
    /\ \E out_size \in Sizes :
          files' = [files EXCEPT ![CurrentOutputPath] =
                       Saved(files[Path(CurrentInput, FALSE)], args.settings, out_size)]
    /\ processed' = processed \cup { CurrentInput }
    /\ input_no' = input_no + 1
    /\ UNCHANGED << args, m_pc, unmet, exit_status >>
    /\ UNCHANGED << baseline, target_bytes, max_attempts, input_path,
                    output_path, s_pc, cand, yielded, attempts, best_size,
                    best_cfg, outcome, s_raised, log, input0 >>
    /\ UNCHANGED fileVars

\* The same call, on a container the pipeline raises on.
MainSingleFileRaises ==
    /\ m_pc = "loop"
    /\ input_no < Len(args.inputs)
    /\ args.inputs[CurrentInput] \notin { "missing", "not_vrm" }
    /\ args.target_mb = None
    /\ FatalMessage(files[Path(CurrentInput, FALSE)].kind) # ""
    /\ ExitWithError
    /\ UNCHANGED << fileVars, searchVars >>

\* main returning a status that tells whether every target was met.
MainReturns_signals_unmet ==
    /\ m_pc = "loop"
    /\ input_no = Len(args.inputs)
    /\ m_pc' = "exited"
    /\ exit_status' = IF unmet = {} THEN 0 ELSE 2
    /\ UNCHANGED << args, input_no, processed, unmet >>
    /\ UNCHANGED << fileVars, searchVars >>

\* return 0 (line 370), raise SystemExit(main())
MainReturns ==
    /\ m_pc = "loop"
    /\ input_no = Len(args.inputs)
    /\ m_pc' = "exited"
    /\ exit_status' = 0
    /\ UNCHANGED << args, input_no, processed, unmet >>
    /\ UNCHANGED << fileVars, searchVars >>

NextMain ==
    \/ MainInputRejected
    \/ MainCallSearch
    \/ MainSearchReturned
    \/ MainSearchRaised
    \/ MainSingleFile
    \/ MainSingleFileRaises
    \/ MainReturns
    \/ (m_pc = "in_search" /\ SearchAttempt)
    \/ (m_pc = "in_search" /\ SearchAttemptRaises)
    \/ (m_pc = "in_search" /\ SearchBudgetBreak)
    \/ (m_pc = "in_search" /\ SearchExhausted)

SpecMain == InitMain /\ [][NextMain]_vars

\* =================================================== rebuilder properties
\* What a region's content is meant to be after the rebuild: the replacement
\* when it has one, its original bytes otherwise.
Content(i) ==
    IF i \in DOMAIN replacements
    THEN replacements[i]
    ELSE Slice(blob, bvs0[i].byteOffset, bvs0[i].byteOffset + bvs0[i].byteLength)

\* End (exclusive) of the closest original region lying before region i, or
\* 0 when region i is the first one of the payload.
PrevEnd(i) ==
    LET before == { j \in DOMAIN bvs0 : bvs0[j].byteOffset < bvs0[i].byteOffset }
    IN  IF before = {} THEN 0
        ELSE LET j == CHOOSE j \in before :
                        \A k \in before : bvs0[k].byteOffset <= bvs0[j].byteOffset
             IN  bvs0[j].byteOffset + bvs0[j].byteLength

\* End of the original region with the highest offset.
LastEnd ==
    LET j == CHOOSE j \in DOMAIN bvs0 :
                 \A k \in DOMAIN bvs0 : bvs0[k].byteOffset <= bvs0[j].byteOffset
    IN  bvs0[j].byteOffset + bvs0[j].byteLength

\* New end of the last region written (the one with the highest new offset).
NewLastEnd ==
    LET j == CHOOSE j \in DOMAIN bvs :
                 \A k \in DOMAIN bvs : bvs[k].byteOffset <= bvs[j].byteOffset
    IN  bvs[j].byteOffset + bvs[j].byteLength

\* C1 (as claimed): after rebuild_blob_with_replacements returns, every
\* region's new byteOffset is a multiple of 4.  The code violates it: gap
\* bytes are copied after the padded content, so a region that follows a
\* gap whose length is not a multiple of 4 starts unaligned.
C1_OffsetsAligned ==
    (pc = "returned" /\ NonOverlapping(bvs0)) =>
        \A i \in DOMAIN bvs : bvs[i].byteOffset % 4 = 0

\* C3: after the rebuild returns, no two regions' ranges
\* [byteOffset, byteOffset+byteLength) overlap in the new payload.
C3_RegionsDisjoint ==
    pc = "returned" =>
        /\ \A i \in DOMAIN bvs : \A j \in DOMAIN bvs :
               i # j => ~Overlap(bvs[i], bvs[j])
        /\ \A i \in DOMAIN bvs :
               bvs[i].byteOffset + bvs[i].byteLength <= Len(new_blob)

\* C3 witness: two regions, the one at the lower offset replaced by more
\* bytes than it had, so the other one had to move.
C3_Witness ==
    /\ pc = "returned"
    /\ Len(bvs) = 2
    /\ \E i \in DOMAIN bvs : \E j \in DOMAIN bvs :
          /\ bvs0[i].byteOffset < bvs0[j].byteOffset
          /\ i \in DOMAIN replacements
          /\ Len(replacements[i]) > bvs0[i].byteLength
          /\ bvs[j].byteOffset > bvs0[j].byteOffset

\* C4: for a non-overlapping table, the bytes of the original payload that
\* lie outside all regions are in the rebuilt payload unchanged: the gap in
\* front of each region sits right in front of it again (after the previous
\* region's new end), and the trailer is the tail of the new payload.
C4_GapsPreserved ==
    (pc = "returned" /\ NonOverlapping(bvs0)) =>
        /\ \A i \in DOMAIN bvs :
              LET g == bvs0[i].byteOffset - PrevEnd(i)
              IN  /\ bvs[i].byteOffset >= g
                  /\ Slice(new_blob, bvs[i].byteOffset - g, bvs[i].byteOffset)
                       = Slice(blob, PrevEnd(i), bvs0[i].byteOffset)
                  /\ \A j \in DOMAIN bvs :
                        bvs0[j].byteOffset < bvs0[i].byteOffset =>
                           bvs[j].byteOffset + bvs[j].byteLength
                              <= bvs[i].byteOffset - g
        /\ LET t == Len(blob) - LastEnd
           IN  /\ Len(new_blob) - t >= NewLastEnd
               /\ Slice(new_blob, Len(new_blob) - t, Len(new_blob))
                    = Slice(blob, LastEnd, Len(blob))

\* C4 witness: a gap between two regions and a trailer, with the region in
\* front of the gap replaced.
C4_Witness ==
    /\ pc = "returned"
    /\ Len(bvs) = 2
    /\ LastEnd < Len(blob)
    /\ \E i \in DOMAIN bvs : \E j \in DOMAIN bvs :
          /\ bvs0[j].byteOffset + bvs0[j].byteLength < bvs0[i].byteOffset
          /\ j \in DOMAIN replacements
          /\ Len(replacements[j]) # bvs0[j].byteLength

\* C5: whenever the rebuild returns normally, buffers[0].byteLength equals
\* the byte length of the payload it returns.
C5_BufferLength ==
    pc = "returned" => buffers[1].byteLength = Len(new_blob)

\* C5 witness: a rebuild that changed the payload's length.
C5_Witness ==
    /\ pc = "returned"
    /\ Len(new_blob) # Len(blob)
    /\ replacements # << >>

\* C6: for a non-overlapping table, each region's new range holds the
\* replacement when it has one and its original bytes otherwise, and the new
\* byteLength is the unpadded byte count of that content.
C6_RegionContent ==
    (pc = "returned" /\ NonOverlapping(bvs0)) =>
        \A i \in DOMAIN bvs :
            /\ bvs[i].byteLength = Len(Content(i))
            /\ Slice(new_blob, bvs[i].byteOffset,
                     bvs[i].byteOffset + bvs[i].byteLength) = Content(i)
            /\ bvs[i].byteOffset + bvs[i].byteLength <= Len(new_blob)

\* C6 witness: one region replaced by content whose length is not a multiple
\* of 4 (so padding was written), another one kept.
C6_Witness ==
    /\ pc = "returned"
    /\ \E i \in DOMAIN bvs : \E j \in DOMAIN bvs :
          /\ i \in DOMAIN replacements
          /\ Len(replacements[i]) % 4 # 0
          /\ j \notin DOMAIN replacements
          /\ bvs0[i].byteOffset < bvs0[j].byteOffset

\* C11: the rebuild fails with a structural error, and returns no payload,
\* whenever the container has no bufferViews or no buffer descriptor: the
\* call ends raising "No bufferViews found." or "No buffers found." and
\* never by returning, and nothing is returned as the new payload.
C11_StructuralError ==
    (pc # "rebuild" /\ (bvs0 = << >> \/ buffers = << >>)) =>
        /\ pc = "raised"
        /\ raised = IF bvs0 = << >> THEN "No bufferViews found."
                                    ELSE "No buffers found."
        /\ new_blob = << >>

\* C11 witness: a container with regions and a replacement but no buffer
\* descriptor: the call has raised after laying the regions out.
C11_Witness ==
    /\ pc = "raised"
    /\ raised = "No buffers found."
    /\ bvs0 # << >>
    /\ replacements # << >>
    /\ buffers = << >>

\* n rounded up to a multiple of 4.
RoundUp4(n) == ((n + 3) \div 4) * 4

\* The original region lying closest before region i (i is not the first).
Previous(i) ==
    CHOOSE j \in DOMAIN bvs0 :
        /\ bvs0[j].byteOffset < bvs0[i].byteOffset
        /\ \A k \in DOMAIN bvs0 :
              bvs0[k].byteOffset < bvs0[i].byteOffset =>
                 bvs0[k].byteOffset <= bvs0[j].byteOffset

\* C16: for a non-overlapping table, taking the regions by ascending
\* original offset: the first region's new offset is the number of bytes in
\* front of it; every other region's new offset is the previous region's new
\* offset, plus the previous region's content length rounded up to a
\* multiple of 4, plus the number of original bytes between the two; and a
\* region's new byteLength is its content's unpadded length.
C16_OffsetRecurrence ==
    (pc = "returned" /\ NonOverlapping(bvs0)) =>
        \A i \in DOMAIN bvs :
            /\ bvs[i].byteLength = Len(Content(i))
            /\ IF \A k \in DOMAIN bvs0 : bvs0[k].byteOffset >= bvs0[i].byteOffset
               THEN bvs[i].byteOffset = bvs0[i].byteOffset
               ELSE LET j == Previous(i)
                    IN  bvs[i].byteOffset =
                           bvs[j].byteOffset + RoundUp4(Len(Content(j)))
                           + (bvs0[i].byteOffset
                              - (bvs0[j].byteOffset + bvs0[j].byteLength))

\* C16 witness (scenario A): regions of lengths 10, 7, 5 at offsets 0, 16,
\* 32, the 7-byte one replaced by 3 bytes: it has length 3 at offset
\* 12 + 6, and the next region starts 4 stored bytes plus the 9 gap bytes
\* further on.
C16_Witness ==
    /\ pc = "returned"
    /\ bvs0 = ScenarioRegions
    /\ Len(replacements[2]) = 3
    /\ bvs[1] = [byteOffset |-> 0, byteLength |-> 10]
    /\ bvs[2] = [byteOffset |-> 18, byteLength |-> 3]
    /\ bvs[3] = [byteOffset |-> 18 + 4 + 9, byteLength |-> 5]

\* C22 (as claimed): for a non-overlapping table, rebuilding with an empty
\* replacement set is the identity (the returned payload is the original
\* payload, every region keeps its byteOffset and byteLength), and
\* rebuilding with replacements no longer than the regions they replace
\* never returns a payload longer than the original.  The code violates
\* both: a region whose length is not a multiple of 4 is written padded and
\* the original bytes after it are copied as well, so the payload grows and
\* the regions behind it move.
C22_EmptyRebuildIsIdentity ==
    (pc = "returned" /\ NonOverlapping(bvs0)) =>
        /\ DOMAIN replacements = {} =>
              /\ new_blob = blob
              /\ bvs = bvs0
        /\ (\A i \in DOMAIN replacements :
               Len(replacements[i]) <= bvs0[i].byteLength) =>
              Len(new_blob) <= Len(blob)

\* ==================================================== pipeline properties
\* Image k of the loaded container is stored in the payload and its bytes
\* do not decode.
Undecodable(k) ==
    /\ images0[k].bufferView # None
    /\ ~decodes[images0[k].bufferView]

\* C10: an image whose bytes fail to decode never gets an entry in the
\* replacement set and keeps its MIME type; the failure is not fatal (the run
\* raises only for a container without images, bufferViews or buffers); when
\* the run returns, the file saved at output_path holds the rebuilt container,
\* every later decodable image has been re-encoded, and in the saved file the
\* undecodable image has its MIME type and its region has its length and
\* bytes unchanged.
C10_DecodeFailureSkipped ==
    /\ \A k \in DOMAIN images0 :
          Undecodable(k) =>
             /\ images0[k].bufferView \notin DOMAIN replacements
             /\ images[k].mimeType = images0[k].mimeType
    /\ pc = "raised" =>
          (images0 = << >> \/ bvs0 = << >> \/ buffers = << >>)
    /\ pc = "returned" =>
          /\ output_path \in DOMAIN files
          /\ files[output_path] = Container(bvs, buffers, images, new_blob)
          /\ \A k \in DOMAIN images0 :
                Undecodable(k) =>
                   LET b   == images0[k].bufferView
                       out == files[output_path]
                   IN  /\ out.images[k].mimeType = images0[k].mimeType
                       /\ out.bufferViews[b].byteLength = bvs0[b].byteLength
                       /\ Slice(out.blob, out.bufferViews[b].byteOffset,
                                out.bufferViews[b].byteOffset
                                   + out.bufferViews[b].byteLength)
                            = Slice(blob, bvs0[b].byteOffset,
                                    bvs0[b].byteOffset + bvs0[b].byteLength)
                       /\ out.bufferViews[b].byteOffset
                             + out.bufferViews[b].byteLength <= Len(out.blob)
                       /\ \A j \in DOMAIN images0 :
                             (j > k /\ images0[j].bufferView # None
                                    /\ decodes[images0[j].bufferView]) =>
                                /\ images0[j].bufferView \in DOMAIN replacements
                                /\ out.images[j].mimeType = "image/webp"

\* C10 witness: the run returned and saved its output; the first image failed
\* to decode, a later one was re-encoded, and the failed image's region moved
\* in the saved payload.
C10_Witness ==
    /\ pc = "returned"
    /\ output_path \in DOMAIN files
    /\ Len(images0) >= 2
    /\ Undecodable(1)
    /\ \E j \in DOMAIN images0 :
          /\ j > 1
          /\ images0[j].bufferView \in DOMAIN replacements
    /\ files[output_path].bufferViews[images0[1].bufferView].byteOffset
          # bvs0[images0[1].bufferView].byteOffset

\* Image k's lower-cased name holds "thumbnail" somewhere.
ThumbnailNamed(k) ==
    /\ images0[k].name.given
    /\ LET lowered == lower(images0[k].name.str)
       IN  \E i \in 0..(Len(lowered) - 9) :
              \A j \in 1..9 : lowered[i + j] = Thumbnail[j]

\* Image k is the source of a texture some material has as normal texture.
NormalMapImage(k) ==
    \E m \in DOMAIN materials : \E t \in DOMAIN textures :
        materials[m].normalTexture = t /\ textures[t].source = k

\* C12: every image that has been decoded and re-encoded was given the
\* thumbnail (limit, quality) when its lower-cased name contains "thumbnail";
\* otherwise the normal-map pair when it is the source of a texture that is
\* some material's normal texture; otherwise the general pair.  An image
\* that is both gets the thumbnail pair.  Images skipped get none.
C12_PolicyByClass ==
    \A k \in DOMAIN images0 :
        IF k <= img_index /\ images0[k].bufferView # None
                          /\ decodes[images0[k].bufferView]
        THEN policy[k] =
               IF ThumbnailNamed(k)
               THEN [limit |-> settings.thumb_max, quality |-> settings.thumb_quality]
               ELSE IF NormalMapImage(k)
               THEN [limit |-> settings.normal_max, quality |-> settings.normal_quality]
               ELSE [limit |-> settings.max_size, quality |-> settings.webp_quality]
        ELSE policy[k] = NoPolicy

\* C12 witness: an image named "MyThumbNAIL" that is also the source of a
\* material's normal texture has been encoded with the thumbnail pair, which
\* differs from the normal-map pair.
C12_Witness ==
    /\ pc = "returned"
    /\ \E k \in DOMAIN images0 :
          /\ ThumbnailNamed(k)
          /\ NormalMapImage(k)
          /\ policy[k] = [limit |-> settings.thumb_max,
                          quality |-> settings.thumb_quality]
          /\ policy[k] # [limit |-> settings.normal_max,
                          quality |-> settings.normal_quality]

\* ====================================================== search properties
\* C2 (as claimed): every attempt of the search loads a container that is
\* byte-identical to the input file as it was before attempt 1, also when the
\* output path is the input path.  The code violates it in that mode: attempt
\* 1 saves over the input, and attempt 2 loads what attempt 1 saved.
C2_AttemptsLoadOriginal ==
    \A k \in DOMAIN log : log[k].loaded = input0

\* C7: the attempts are the candidates in generator order, and an attempt
\* whose output size is <= the target is the last one: the search has
\* returned reporting success, and the file at the output path is what that
\* attempt saved, of size <= target.
C7_StopsAtFirstHit ==
    /\ \A k \in DOMAIN log :
          log[k].cfg = candidate_settings_for_target(baseline)[k]
    /\ \A k \in DOMAIN log :
          log[k].size <= target_bytes =>
             /\ k = Len(log)
             /\ s_pc = "returned"
             /\ outcome = "hit"
             /\ files[output_path] = Saved(log[k].loaded, log[k].cfg, log[k].size)
             /\ files[output_path].size <= target_bytes
    /\ outcome = "hit" => (log # << >> /\ log[Len(log)].size <= target_bytes)

\* C7 witness (scenario B): the first attempt is over the target, the second
\* one meets it, and the search has returned reporting success.
C7_Witness ==
    /\ s_pc = "returned"
    /\ outcome = "hit"
    /\ Len(log) = 2
    /\ log[1].size > target_bytes
    /\ log[2].size <= target_bytes

\* The smallest output size of the attempts run.
MinLogSize ==
    CHOOSE m \in { log[k].size : k \in DOMAIN log } :
        \A k \in DOMAIN log : m <= log[k].size

\* C8: when the search has run at least one attempt and none met the target,
\* it reports target-not-met, the size it reports as best is the minimum of
\* the attempts' output sizes, and the settings it reports are those of an
\* attempt that produced that size.
C8_BestIsMinimum ==
    (/\ s_pc = "returned"
     /\ log # << >>
     /\ \A k \in DOMAIN log : log[k].size > target_bytes) =>
        /\ outcome = "not_met"
        /\ best_size = MinLogSize
        /\ \E k \in DOMAIN log :
              log[k].cfg = best_cfg /\ log[k].size = best_size

\* C8 witness: three attempts or more, none meeting the target, the smallest
\* neither the first nor the last.
C8_Witness ==
    /\ s_pc = "returned"
    /\ outcome = "not_met"
    /\ Len(log) >= 3
    /\ log[2].size < log[1].size
    /\ log[2].size < log[3].size
    /\ best_size = log[2].size

\* C15 (as claimed): when the search ends without meeting the target after
\* two or more attempts, the file left at the output path is the output of
\* the smallest attempt, the one whose size and settings are reported as
\* best.  The code violates it: every attempt saves over the output path and
\* nothing restores the best one, so the file left is the last attempt's
\* output, which is larger than the best whenever a later attempt is larger.
C15_OutputIsSmallest ==
    (/\ s_pc = "returned"
     /\ outcome = "not_met"
     /\ Len(log) >= 2) =>
        /\ files[output_path].size = best_size
        /\ \E k \in DOMAIN log :
              /\ log[k].size = MinLogSize
              /\ log[k].cfg = best_cfg
              /\ files[output_path] = Saved(log[k].loaded, log[k].cfg, log[k].size)

\* Number of times the search has run the pipeline (optimize_vrm_file):
\* the runs that returned, and the one that raised.
PipelineRuns == Len(log) + (IF s_pc = "raised" THEN 1 ELSE 0)

SearchBounded ==
    /\ Len(candidate_settings_for_target(baseline)) <= 5 * 6
    /\ PipelineRuns <= Min(max_attempts,
                           Len(candidate_settings_for_target(baseline)))

SearchEnded == s_pc \in { "returned", "raised" }

\* What is left of a search at position p that has drawn c candidates: the
\* candidates not yet drawn, and the end.
SearchRemaining(b, c, p) ==
    (Len(candidate_settings_for_target(b)) - c)
    + (IF p \in { "returned", "raised" } THEN 0 ELSE 1)

\* C17: for every baseline and every max_attempts >= 0 the search ends:
\* until it has ended it is in its loop (where it draws the next candidate
\* or finds none), and every step takes it closer to the end (what is left
\* of it, a natural number, decreases); and it runs the pipeline at most
\* min(max_attempts, number of candidates) times, the number of candidates
\* being at most 5 * 6 = 30.
C17_SearchTerminatesWithinBudget ==
    /\ [](/\ SearchBounded
          /\ SearchRemaining(baseline, cand, s_pc) >= 0
          /\ (SearchEnded \/ s_pc = "loop"))
    /\ [][SearchRemaining(baseline', cand', s_pc')
             < SearchRemaining(baseline, cand, s_pc)]_vars

\* C17 witness: a search over the full 30 candidates that no attempt met has
\* ended after running the pipeline max_attempts times, and more than once.
C17_Witness ==
    /\ s_pc = "returned"
    /\ Len(candidate_settings_for_target(baseline)) = 30
    /\ max_attempts >= 2
    /\ PipelineRuns = max_attempts
    /\ outcome = "not_met"

\* C18 (as claimed): for every baseline and max_attempts >= 1, a search
\* that returns has run at least one attempt and has reported exactly one
\* of two outcomes: success, with an attempt of size <= target, or target
\* not met, with a best attempt's size and settings.  The code violates it:
\* start settings below the floors (max_size < 128 or webp_quality < 10)
\* leave the generator without a candidate, the loop body never runs, and
\* the search returns without an attempt and without printing anything.
C18_NeverSilent ==
    (s_pc = "returned" /\ max_attempts >= 1) =>
        /\ log # << >>
        /\ \/ /\ outcome = "hit"
              /\ log[Len(log)].size <= target_bytes
           \/ /\ outcome = "not_met"
              /\ \E k \in DOMAIN log :
                    log[k].size = best_size /\ log[k].cfg = best_cfg
              /\ \A k \in DOMAIN log : log[k].size > target_bytes

\* ==================================================== generator properties
\* C13 (as claimed): along the whole candidate sequence, webp_quality never
\* increases from one candidate to the next.
C13_QualityNeverIncreases ==
    \A k \in 1..(Len(yielded) - 1) :
        yielded[k + 1].webp_quality <= yielded[k].webp_quality

\* C13 (amended): from one candidate to the next, either max_size stays and
\* webp_quality strictly decreases, or max_size strictly decreases and
\* webp_quality restarts at the baseline quality (so it does not decrease).
C13_QualityDescendsPerResolution ==
    \A k \in 1..(Len(yielded) - 1) :
        IF yielded[k + 1].max_size = yielded[k].max_size
        THEN yielded[k + 1].webp_quality < yielded[k].webp_quality
        ELSE /\ yielded[k + 1].max_size < yielded[k].max_size
             /\ yielded[k + 1].webp_quality = baseline.webp_quality
             /\ yielded[k + 1].webp_quality >= yielded[k].webp_quality

\* C13 witness: the generator is exhausted after several resolutions of
\* several qualities each, so the quality went down and restarted higher.
C13_Witness ==
    /\ s_pc = "exhausted"
    /\ \E k \in 1..(Len(yielded) - 1) :
          /\ yielded[k + 1].max_size < yielded[k].max_size
          /\ yielded[k + 1].webp_quality > yielded[k].webp_quality
    /\ \E k \in 1..(Len(yielded) - 1) :
          /\ yielded[k + 1].max_size = yielded[k].max_size
          /\ yielded[k + 1].webp_quality < yielded[k].webp_quality

\* C19: every candidate yielded has max_size within [128, baseline
\* max_size] and webp_quality within [10, baseline webp_quality]; no
\* (max_size, webp_quality) pair is yielded twice; max_size never goes back
\* up, so the candidates of one resolution come in one block, before any
\* candidate of a smaller resolution; and once the generator is exhausted
\* every resolution has been combined with every quality.
C19_LaddersAndOrder ==
    /\ \A k \in DOMAIN yielded :
          /\ 128 <= yielded[k].max_size
          /\ yielded[k].max_size <= baseline.max_size
          /\ 10 <= yielded[k].webp_quality
          /\ yielded[k].webp_quality <= baseline.webp_quality
    /\ \A j \in DOMAIN yielded : \A k \in DOMAIN yielded :
          j < k =>
             /\ << yielded[j].max_size, yielded[j].webp_quality >>
                  # << yielded[k].max_size, yielded[k].webp_quality >>
             /\ yielded[j].max_size >= yielded[k].max_size
    /\ s_pc = "exhausted" =>
          \A j \in DOMAIN yielded : \A k \in DOMAIN yielded :
             \E i \in DOMAIN yielded :
                /\ yielded[i].max_size = yielded[j].max_size
                /\ yielded[i].webp_quality = yielded[k].webp_quality

\* C19 witness: a baseline whose own values are rungs of both ladders (448
\* and 65, so both ladders lose a duplicate): the generator is exhausted
\* after 4 resolutions of 5 qualities each.
C19_Witness ==
    /\ s_pc = "exhausted"
    /\ baseline.max_size = 448
    /\ baseline.webp_quality = 65
    /\ Len(yielded) = 4 * 5
    /\ yielded[5].max_size = 448
    /\ yielded[6].max_size = 384

\* C20 (as claimed): in every candidate, for every baseline, the derived
\* thumbnail quality is strictly below the main quality and the derived
\* normal-map quality strictly above it.
C20_StrictlyBetween ==
    \A k \in DOMAIN yielded :
        /\ yielded[k].thumb_quality < yielded[k].webp_quality
        /\ yielded[k].webp_quality < yielded[k].normal_quality

\* C20 (amended): neither derived quality exceeds the baseline's value for
\* its class; the thumbnail quality is 10 below the main quality unless the
\* floor of 30 or the baseline's thumbnail quality takes over, and it is
\* strictly below the main quality exactly when the main quality is above
\* 30 or above the baseline's thumbnail quality; the normal-map quality is
\* 5 above the main quality unless the floor of 40 or the baseline's
\* normal-map quality takes over, and it is strictly above the main quality
\* exactly when the baseline's normal-map quality is.  With the default
\* baseline both strict inequalities hold.
C20_ClampedOffsets ==
    \A k \in DOMAIN yielded :
        LET c == yielded[k]
            q == c.webp_quality
        IN  /\ c.thumb_quality <= baseline.thumb_quality
            /\ c.normal_quality <= baseline.normal_quality
            /\ c.thumb_quality \in { q - 10, 30, baseline.thumb_quality }
            /\ c.normal_quality \in { q + 5, 40, baseline.normal_quality }
            /\ (c.thumb_quality < q) <=> (q > 30 \/ baseline.thumb_quality < q)
            /\ (c.normal_quality > q) <=> (baseline.normal_quality > q)
            /\ baseline = DefaultSettings =>
                   (c.thumb_quality < q /\ q < c.normal_quality)

\* C20 witness: the generator has yielded a candidate whose thumbnail
\* quality is not below its main quality (main quality at most 30) and whose
\* normal-map quality is not above it (clamped by the baseline).
C20_Witness ==
    /\ yielded # << >>
    /\ \E k \in DOMAIN yielded :
          /\ yielded[k].thumb_quality >= yielded[k].webp_quality
          /\ yielded[k].normal_quality <= yielded[k].webp_quality
          /\ yielded[k].webp_quality <= 30
          /\ yielded[k].normal_quality = baseline.normal_quality

\* C21 (as claimed): in every candidate, for every baseline, the derived
\* thumbnail max-dimension and normal-map max-dimension are each <= the
\* candidate's main max-dimension and <= the baseline's value for the class.
C21_DimensionsBelowMain ==
    \A k \in DOMAIN yielded :
        /\ yielded[k].thumb_max <= yielded[k].max_size
        /\ yielded[k].thumb_max <= baseline.thumb_max
        /\ yielded[k].normal_max <= yielded[k].max_size
        /\ yielded[k].normal_max <= baseline.normal_max

\* C21 (amended): the normal-map max-dimension is the smaller of the main
\* max-dimension and the baseline's normal-map value; the thumbnail
\* max-dimension never exceeds the baseline's thumbnail value, and is the
\* main max-dimension unless the floor of 256 or the baseline's thumbnail
\* value takes over: it is <= the main max-dimension exactly when that is at
\* least 256 or the baseline's thumbnail value is not above it.
C21_ClampedDimensions ==
    \A k \in DOMAIN yielded :
        LET c == yielded[k]
        IN  /\ c.normal_max <= c.max_size
            /\ c.normal_max <= baseline.normal_max
            /\ c.normal_max \in { c.max_size, baseline.normal_max }
            /\ c.thumb_max <= baseline.thumb_max
            /\ c.thumb_max \in { c.max_size, 256, baseline.thumb_max }
            /\ (c.thumb_max <= c.max_size)
                  <=> (c.max_size >= 256 \/ baseline.thumb_max <= c.max_size)

\* C21 witness: a candidate of main max-dimension below 256 whose thumbnail
\* max-dimension is the floor, 256, above the main one, while its normal-map
\* max-dimension is not.
C21_Witness ==
    \E k \in DOMAIN yielded :
        /\ yielded[k].max_size < 256
        /\ yielded[k].thumb_max = 256
        /\ yielded[k].thumb_max > yielded[k].max_size
        /\ yielded[k].normal_max <= yielded[k].max_size

\* ======================================================== main properties
\* Input i is a fatal failure: the path does not exist or is no .vrm, or
\* the container has no images, bufferViews or buffers and the pipeline is
\* run on it (always without --target-mb; with it, when the generator
\* yields a candidate at all).
Fails(i) ==
    \/ args.inputs[i] \in { "missing", "not_vrm" }
    \/ /\ args.inputs[i] \in { "no_images", "no_bufferviews", "no_buffers" }
       /\ \/ args.target_mb = None
          \/ candidate_settings_for_target(args.settings) # << >>

SomeInputFails == \E i \in DOMAIN args.inputs : Fails(i)

FirstFailing ==
    CHOOSE i \in DOMAIN args.inputs :
        Fails(i) /\ \A j \in DOMAIN args.inputs : Fails(j) => i <= j

\* C9 (as claimed): a fatal failure on one input does not abort the batch:
\* every other input that does not fail is still processed, and the exit
\* status is non-zero exactly when an input failed.
C9_BatchContinues ==
    m_pc = "exited" =>
        /\ \A i \in DOMAIN args.inputs : ~Fails(i) => i \in processed
        /\ (exit_status # 0) <=> SomeInputFails

\* C9 (amended): the first fatal failure ends the run: the inputs before it
\* have been processed, neither it nor any later input is, and the exit
\* status is non-zero; with no failing input every input is processed and
\* the exit status is 0.
C9_BatchAbortsAtFirstFailure ==
    m_pc = "exited" =>
        IF SomeInputFails
        THEN /\ exit_status = 1
             /\ processed = 1..(FirstFailing - 1)
        ELSE /\ exit_status = 0
             /\ processed = DOMAIN args.inputs

\* C9 witness: the first of two inputs fails, the second is a good
\* container, and the run has ended without processing it.
C9_Witness ==
    /\ m_pc = "exited"
    /\ Len(args.inputs) = 2
    /\ Fails(1)
    /\ args.inputs[2] = "vrm"
    /\ processed = {}
    /\ exit_status = 1

\* C14 (as claimed): when a search ends without any attempt meeting the
\* target, no fatal error is raised and the exit status differs from that
\* of a run that met its targets: a run that went through all its inputs
\* exits with 0 exactly when no search ended without a hit.
C14_ExitStatusTellsNotMet ==
    /\ unmet \subseteq processed
    /\ (m_pc = "exited" /\ processed = DOMAIN args.inputs) =>
          (exit_status = 0 <=> unmet = {})

\* C14 (amended): a search that ends without a hit returns normally (the
\* input counts as processed, no fatal error), and the exit status does not
\* tell: a run that went through all its inputs exits with 0 whether or not
\* every target was met.
C14_NotMetExitsZero ==
    /\ unmet \subseteq processed
    /\ (s_pc = "returned" /\ outcome # "hit") => s_raised = ""
    /\ (m_pc = "exited" /\ processed = DOMAIN args.inputs) => exit_status = 0

\* C14 witness: a run with --target-mb has ended; the search of an input
\* ran several attempts, none met the target, and the exit status is 0.
C14_Witness ==
    /\ m_pc = "exited"
    /\ unmet # {}
    /\ outcome = "not_met"
    /\ Len(log) >= 2
    /\ \A k \in DOMAIN log : log[k].size > target_bytes
    /\ exit_status = 0

=============================================================================
